---- MODULE Spec2Model ----
(***************************************************************************)
(* Request layer of lucent-flow: RequestDeduplicator (in-flight map and    *)
(* TTL cache), OptimisticUpdates (TTL registry), QueryBuilder and the      *)
(* lucentQuery pipeline built on them; and two utilities around a store:   *)
(* TestHelper and the timeTravel middleware.                               *)
(*                                                                         *)
(* Spec       RequestDeduplicator driven directly by deduplicate callers,  *)
(*            operation settlements, clearCache(), clearPending() and the  *)
(*            clock.                                                       *)
(* SpecClear  RequestDeduplicator with clearCache() and clearPending()     *)
(*            racing the operations in flight, within one tick.            *)
(* SpecQuery  the lucentQuery callable of one pipeline over the same       *)
(*            deduplicator and the OptimisticUpdates registry.             *)
(* SpecFail   the failure paths of the lucentQuery callable: throwing      *)
(*            interceptors, rejected statuses, unparsable bodies.          *)
(* SpecTimeout  the timeout of the network call, with the clock.           *)
(* SpecShared  callables of different baseUrl over the one deduplicator.   *)
(* SpecRegistry lucentQuery next to the registry of optimistic updates,    *)
(*            with the clock.                                              *)
(* SpecUpdates  OptimisticUpdates called directly, with the clock.         *)
(* SpecRollback OptimisticUpdates with a rollback callback that throws.    *)
(* SpecBuilder  the chain methods of QueryBuilder.                         *)
(* SpecDescriptor  descriptors built by a QueryBuilder that is used further. *)
(* SpecUndoRedo  the undoRedo middleware: setState, undo and redo.           *)
(* SpecTimeTravel  the timeTravel middleware with undo, redo and jumpTo.     *)
(* SpecOffline  the offline middleware: queueAction, processQueue, online   *)
(*              and offline events; SpecOfflineFair adds that a saveQueue   *)
(*              awaited settles.                                            *)
(* SpecFetch    createFetchStore: fetchData calls and their retries.        *)
(* SpecHelper   TestHelper recording the setState calls of a store.        *)
(* SpecTravel   the timeTravel middleware (back/forward/jumpTo) on a store. *)
(***************************************************************************)
EXTENDS Integers, Sequences, FiniteSets, TLC

VARIABLES
    now,              \* the clock, in ticks of MsPerTick milliseconds
    pendingRequests,  \* RequestDeduplicator.pendingRequests : key -> {promise, timestamp}
    cache,            \* RequestDeduplicator.cache : key -> {data, timestamp}
    ops,              \* the requestFn invocations made by deduplicate, in order
    calls,            \* the deduplicate calls whose promise has not settled yet
    returned,         \* the deduplicate calls settled by the latest step, with what they received
    disturbed,        \* history: keys that had an operation in flight when clearPending() ran
    config,           \* the LucentQueryConfig the lucentQuery callable was built from
    queries,          \* the calls of the lucentQuery callable, in the order they were issued
    updates,          \* OptimisticUpdates.updates : id -> {id, data, rollback, timestamp}
    registered,       \* history: per id, the latest addUpdate not followed by removeUpdate or rollbackUpdate
    lastCall,         \* the latest direct call of an OptimisticUpdates method, with what it saw and did
    query,            \* QueryBuilder.query.params : parameter -> value
    lastChain,        \* the latest call of a QueryBuilder method
    built,            \* the descriptors build returned that callers have kept
    store,            \* the state of the store (getState())
    recorders,        \* TestHelper: the recordStateChanges wrappers installed around store.setState
    stateChanges,     \* TestHelper.stateChanges
    timeTravelState,  \* timeTravel: {past, present, future, currentIndex, actions}
    lastStore,        \* the latest call made on the store or one of its utilities
    offlineState,     \* the queue and the flags of the offline middleware
    fetchStore        \* the options of a fetch store and its fetchData calls

storeVars == <<store, recorders, stateChanges, timeTravelState, lastStore, offlineState,
              fetchStore>>

libVars == <<registered, lastCall, query, lastChain, built, storeVars>>

queryVars == <<config, queries, updates, libVars>>

vars == <<now, pendingRequests, cache, ops, calls, returned, disturbed, config, queries, updates,
          registered, lastCall, query, lastChain, built,
          store, recorders, stateChanges, timeTravelState, lastStore, offlineState,
              fetchStore>>

----------------------------------------------------------------------------
(* Bounds of the model *)

MaxTime == 2
MaxCalls == 2
MaxOps == 2

(* One tick of the model clock is two and a half minutes of Date.now(). *)
MsPerTick == 150 * 1000

Keys == {"k1", "k2"}

(* Results are opaque to the deduplicator: invocation o of a requestFn       *)
(* resolves with the value ResultOf(o) or rejects with the reason ErrorOf(o), *)
(* so that the outcomes of different invocations are always distinguishable.  *)
ResultOf(o) == o
ErrorOf(o) == 0 - o

----------------------------------------------------------------------------
(* JavaScript Map *)

EmptyMap == [k \in {} |-> k]
Has(m, k) == k \in DOMAIN m
MapSet(m, k, v) == [x \in (DOMAIN m) \cup {k} |-> IF x = k THEN v ELSE m[x]]
MapDelete(m, k) == [x \in (DOMAIN m) \ {k} |-> m[x]]

(* Promise outcomes *)
Unsettled == [kind |-> "unsettled", val |-> 0]
Fulfilled(v) == [kind |-> "fulfilled", val |-> v]
Rejected(e) == [kind |-> "rejected", val |-> e]

NoPromise == 0

(* No method of OptimisticUpdates or QueryBuilder has been called directly *)
NoCall == [op |-> "none"]

(* A store created with the initial state { count: 0 }; no TestHelper      *)
(* wrapper installed; the time-travel state as timeTravel(store) builds it. *)
(* No action queued, no processQueue run; navigator.onLine is true *)
NoAction == [type |-> 0]
NoOffline ==
    [queue |-> <<>>, isOnline |-> TRUE, isProcessing |-> FALSE,
     run |-> "none", action |-> NoAction, queued |-> 0, applied |-> <<>>]

(* DEFAULT_OPTIONS of createFetchStore, and no fetchData call made *)
NoFetchStore == [mergedOptions |-> [retry |-> 3, staleTime |-> 0], calls |-> <<>>]

InitStore ==
    /\ store = [count |-> 0]
    /\ recorders = 0
    /\ stateChanges = <<>>
    /\ timeTravelState = [past |-> <<>>, present |-> [count |-> 0], future |-> <<>>,
                          currentIndex |-> 0, actions |-> <<>>]
    /\ lastStore = NoCall
    /\ offlineState = NoOffline
    /\ fetchStore = NoFetchStore

InitLib ==
    /\ InitStore
    /\ registered = EmptyMap
    /\ lastCall = NoCall
    /\ query = EmptyMap
    /\ lastChain = NoCall
    /\ built = <<>>

----------------------------------------------------------------------------
(* RequestDeduplicator *)

CACHE_TTL == 5 * 60 * 1000

DateNow == now * MsPerTick

isCacheValidLate(timestamp) == DateNow - timestamp <= CACHE_TTL

isCacheValid(timestamp) == DateNow - timestamp < CACHE_TTL

CacheHitAlways(key, useCache) ==
    /\ Has(cache, key)
    /\ isCacheValid(cache[key].timestamp)

(* if (useCache) { cached = cache.get(key); if (cached && isCacheValid(..)) *)
CacheHit(key, useCache) ==
    /\ useCache
    /\ Has(cache, key)
    /\ isCacheValid(cache[key].timestamp)

HasPendingNever(key) == FALSE

(* const pending = this.pendingRequests.get(key); if (pending) *)
HasPending(key) == Has(pendingRequests, key)

(* The outcome of the promise requestFn().then(...) of invocation o. *)
PromiseOutcome(o) ==
    CASE ops[o].status = "resolved" -> Fulfilled(ops[o].value)
      [] ops[o].status = "rejected" -> Rejected(ops[o].value)
      [] OTHER -> Unsettled

SettledOp(o) == ops[o].status \in {"resolved", "rejected"}

(* The invocations deduplicate made for key that have not settled yet. *)
InFlight(key) == {o \in DOMAIN ops : ops[o].dedup /\ ops[o].key = key /\ ~SettledOp(o)}

(* What a deduplicate call saw and received.  cacheAge, cachedData, inflight, *)
(* pendingSeen, joinedStatus and disturbed record the state the call was made *)
(* in; invoked is the number of requestFn invocations the call made.          *)
CallRecord(key, useCache, src, promise, outcome) ==
    [ key |-> key, useCache |-> useCache, src |-> src, promise |-> promise,
      outcome |-> outcome,
      invoked |-> Len(ops') - Len(ops),
      cacheAge |-> IF Has(cache, key) THEN DateNow - cache[key].timestamp ELSE -1,
      cachedData |-> IF Has(cache, key) THEN cache[key].data ELSE 0,
      inflight |-> InFlight(key),
      pendingSeen |-> Has(pendingRequests, key),
      joinedStatus |-> IF src = "pending" THEN ops[promise].status ELSE "none",
      disturbed |-> key \in disturbed ]

(* return cached.data / return pending.promise / return promise *)
Deduplicate(key, useCache) ==
    /\ IF CacheHit(key, useCache)
       THEN /\ UNCHANGED <<pendingRequests, ops, calls>>
            /\ returned' = <<CallRecord(key, useCache, "cache", NoPromise,
                                        Fulfilled(cache[key].data))>>
       ELSE IF HasPending(key)
       THEN LET p == pendingRequests[key].promise
                c == CallRecord(key, useCache, "pending", p, PromiseOutcome(p))
            IN  /\ UNCHANGED <<pendingRequests, ops>>
                /\ IF ops[p].status = "inflight"
                   THEN /\ Len(calls) < MaxCalls
                        /\ calls' = Append(calls, c)
                        /\ returned' = <<>>
                   ELSE /\ returned' = <<c>>
                        /\ UNCHANGED calls
       ELSE /\ Len(ops) < MaxOps
            /\ Len(calls) < MaxCalls
            /\ ops' = Append(ops, [key |-> key, dedup |-> TRUE, status |-> "inflight",
                                   value |-> 0, atClearCache |-> "none"])
            /\ pendingRequests' = MapSet(pendingRequests, key,
                   [promise |-> Len(ops) + 1, timestamp |-> DateNow])
            /\ calls' = Append(calls, CallRecord(key, useCache, "started", Len(ops) + 1,
                                                 Unsettled))
            /\ returned' = <<>>
    /\ UNCHANGED <<cache, now, disturbed>>
    /\ UNCHANGED queryVars

Holds(o, c) == c.promise = o
Others(o, c) == c.promise # o

(* Every caller holding promise o observes its settlement. *)
Deliver(o, outcome) ==
    /\ returned' = [i \in DOMAIN SelectSeq(calls, LAMBDA c : Holds(o, c)) |->
                      [SelectSeq(calls, LAMBDA c : Holds(o, c))[i] EXCEPT !.outcome = outcome]]
    /\ calls' = SelectSeq(calls, LAMBDA c : Others(o, c))

(* The fulfilment handler passed to requestFn().then(...) *)
OnFulfilled(o, data) ==
    /\ cache' = MapSet(cache, ops[o].key, [data |-> data, timestamp |-> DateNow])
    /\ pendingRequests' = MapDelete(pendingRequests, ops[o].key)

OnRejectedCaches(o, err) ==
    /\ cache' = MapSet(cache, ops[o].key, [data |-> err, timestamp |-> DateNow])
    /\ UNCHANGED pendingRequests

(* then() is given no rejection handler: a rejection only passes through. *)
OnRejected(o, err) ==
    UNCHANGED <<cache, pendingRequests>>

Resolve(o, data) ==
    /\ ops[o].status = "inflight"
    /\ ops' = [ops EXCEPT ![o].status = "resolved", ![o].value = data]
    /\ OnFulfilled(o, data)
    /\ Deliver(o, Fulfilled(data))
    /\ UNCHANGED <<now, disturbed>>
    /\ UNCHANGED queryVars

Reject(o, err) ==
    /\ ops[o].status = "inflight"
    /\ ops' = [ops EXCEPT ![o].status = "rejected", ![o].value = err]
    /\ OnRejected(o, err)
    /\ Deliver(o, Rejected(err))
    /\ UNCHANGED <<now, disturbed>>
    /\ UNCHANGED queryVars

(* Map.clear() *)
clear(m) == EmptyMap

(* clearCache(): this.cache.clear() *)
clearCache ==
    /\ cache # EmptyMap
    /\ cache' = clear(cache)
    /\ returned' = <<>>
    /\ UNCHANGED <<now, pendingRequests, ops, calls, disturbed>>
    /\ UNCHANGED queryVars

clearPending ==
    /\ pendingRequests # EmptyMap
    /\ pendingRequests' = EmptyMap
    /\ disturbed' = disturbed \cup {ops[o].key : o \in {x \in DOMAIN ops : ops[x].dedup /\ ~SettledOp(x)}}
    /\ returned' = <<>>
    /\ UNCHANGED <<now, cache, ops, calls>>
    /\ UNCHANGED queryVars

Tick ==
    /\ now < MaxTime
    /\ now' = now + 1
    /\ returned' = <<>>
    /\ UNCHANGED <<pendingRequests, cache, ops, calls, disturbed>>
    /\ UNCHANGED queryVars

Init ==
    /\ now = 0
    /\ pendingRequests = EmptyMap
    /\ cache = EmptyMap
    /\ ops = <<>>
    /\ calls = <<>>
    /\ returned = <<>>
    /\ disturbed = {}
    /\ config = [enableDeduplication |-> FALSE]
    /\ queries = <<>>
    /\ updates = EmptyMap
    /\ InitLib

Next ==
    \/ \E key \in Keys, useCache \in BOOLEAN : Deduplicate(key, useCache)
    \/ \E o \in DOMAIN ops : Resolve(o, ResultOf(o))
    \/ \E o \in DOMAIN ops : Reject(o, ErrorOf(o))
    \/ clearCache
    \/ clearPending
    \/ Tick

Spec == Init /\ [][Next]_vars

----------------------------------------------------------------------------
(* clearCache() and clearPending() racing the operations in flight *)

(* clearCache(), with its history: atClearCache keeps, of every operation   *)
(* started before the latest clearCache() call, its status at that call.    *)
clearCacheTracked ==
    /\ cache' = clear(cache)
    /\ ops' = [o \in DOMAIN ops |-> [ops[o] EXCEPT !.atClearCache = ops[o].status]]
    /\ returned' = <<>>
    /\ UNCHANGED <<now, pendingRequests, calls, disturbed>>
    /\ UNCHANGED queryVars

(* The calls are followed within one tick of the clock: no cache entry      *)
(* expires meanwhile.                                                       *)
NextClear ==
    \/ \E key \in Keys, useCache \in BOOLEAN : Deduplicate(key, useCache)
    \/ \E o \in DOMAIN ops : Resolve(o, ResultOf(o))
    \/ \E o \in DOMAIN ops : Reject(o, ErrorOf(o))
    \/ clearCacheTracked
    \/ clearPending

SpecClear == Init /\ [][NextClear]_vars

----------------------------------------------------------------------------
(* Properties of RequestDeduplicator, checked under Spec *)

CallSet == {calls[i] : i \in DOMAIN calls} \cup {returned[i] : i \in DOMAIN returned}

Settled(c) == c.outcome.kind # "unsettled"

(* The cache entry the call saw was younger than the TTL. *)
SawFresh(c) == c.cacheAge >= 0 /\ c.cacheAge < CACHE_TTL

(* The call was made while an operation for its key was in flight and no    *)
(* fresh cache entry for its key existed.                                   *)
Concurrent(c) == c.inflight # {} /\ ~SawFresh(c)

(* The call did not invoke its operation and holds the promise of the one   *)
(* operation in flight; a holder of a promise receives exactly its outcome. *)
JoinedTheOne(c) ==
    /\ c.invoked = 0
    /\ c.inflight = {c.promise}

ReceivesOutcome(c) ==
    c.promise # NoPromise => c.outcome = PromiseOutcome(c.promise)

(* C1 as stated: every deduplicate(k, op) call made while the first caller's *)
(* operation for k is in flight and no fresh cache entry for k exists        *)
(* invokes nothing, joins that single invocation and receives its outcome    *)
(* (the same value or the same rejection) as every other caller.             *)
C1_Original ==
    \A c \in CallSet :
        /\ Concurrent(c) => JoinedTheOne(c)
        /\ ReceivesOutcome(c)

(* C1 amended: the same, for keys that had no operation in flight at any     *)
(* clearPending() call made before the call.                                 *)
C1_SingleFlight ==
    \A c \in CallSet :
        /\ (Concurrent(c) /\ ~c.disturbed) => JoinedTheOne(c)
        /\ ReceivesOutcome(c)

(* Two callers of one key, the first having invoked the operation and the    *)
(* second having joined it, have just received the same rejection.           *)
C1_Witness ==
    /\ Len(returned) = 2
    /\ returned[1].invoked = 1 /\ returned[2].invoked = 0
    /\ returned[1].promise = returned[2].promise
    /\ ~returned[2].disturbed
    /\ returned[1].outcome.kind = "rejected"
    /\ returned[2].outcome = returned[1].outcome

(* C2: a deduplicate call made after the operation of its key rejected       *)
(* invokes its own operation: no call is answered with a rejection that had  *)
(* already happened when the call was made.                                  *)
C2_RetryAfterRejection ==
    \A c \in CallSet :
        (c.joinedStatus = "rejected") => (c.invoked = 1 /\ c.outcome.kind # "rejected")

(* C3: once an operation has settled (resolved or rejected), the pending map *)
(* holds no entry for it.                                                    *)
C3_PendingRemovedOnSettle ==
    \A o \in DOMAIN ops :
        ops[o].status # "inflight" =>
            ~(Has(pendingRequests, ops[o].key) /\ pendingRequests[ops[o].key].promise = o)

(* C4: a deduplicate call with useCache = true that finds a cache entry of   *)
(* age t - t0 < TTL returns that entry's data without invoking anything; one *)
(* that finds an entry of age >= TTL and no pending entry invokes its        *)
(* operation.                                                                *)
C4_CacheTTL ==
    \A c \in CallSet :
        (c.useCache /\ c.cacheAge >= 0) =>
            /\ (c.cacheAge < 5 * 60 * 1000) =>
                   (c.invoked = 0 /\ c.promise = NoPromise
                      /\ c.outcome = Fulfilled(c.cachedData))
            /\ (c.cacheAge >= 5 * 60 * 1000 /\ ~c.pendingSeen) =>
                   (c.invoked = 1 /\ c.promise # NoPromise)

(* A call with useCache = true that found an entry aged exactly TTL (the     *)
(* first instant at which it is expired) has invoked its operation.          *)
C4_Witness ==
    \E i \in DOMAIN calls :
        /\ calls[i].useCache
        /\ calls[i].cacheAge = CACHE_TTL
        /\ calls[i].invoked = 1

(* C5 as stated: at most one operation per key is in flight, under any       *)
(* interleaving including clearPending().                                    *)
C5_Original ==
    \A k \in Keys : Cardinality(InFlight(k)) <= 1

(* C5 amended: at most one operation is in flight for every key that had no  *)
(* operation in flight at any clearPending() call.                           *)
C5_AtMostOneInFlight ==
    \A k \in Keys : k \notin disturbed => Cardinality(InFlight(k)) <= 1

(* One operation is in flight for a key, a second caller has joined it, and  *)
(* clearPending() has run before without disturbing that key.                *)
C5_Witness ==
    \E k \in Keys :
        /\ k \notin disturbed
        /\ disturbed # {}
        /\ Cardinality(InFlight(k)) = 1
        /\ \E i \in DOMAIN calls : calls[i].key = k /\ calls[i].src = "pending"

(* C6: every cache entry holds a value with which an operation of its key    *)
(* resolved, and a step in which an operation rejects leaves the cache       *)
(* unchanged.                                                                *)
C6_ErrorsNeverCached ==
    /\ [](\A k \in DOMAIN cache :
            \E o \in DOMAIN ops :
                /\ ops[o].key = k
                /\ ops[o].status = "resolved"
                /\ ops[o].value = cache[k].data)
    /\ [][(\E o \in DOMAIN ops : ops[o].status = "inflight" /\ ops'[o].status = "rejected")
            => cache' = cache]_vars

(* An operation of a key rejected after an earlier one of the same key had   *)
(* resolved, and the cache still holds the earlier result.                   *)
C6_Witness ==
    \E o1, o2 \in DOMAIN ops :
        /\ o1 < o2
        /\ ops[o1].key = ops[o2].key
        /\ ops[o1].status = "resolved"
        /\ ops[o2].status = "rejected"
        /\ Has(cache, ops[o1].key)
        /\ cache[ops[o1].key].data = ops[o1].value


----------------------------------------------------------------------------
(* JavaScript values of the pipeline are written as strings: "undefined",   *)
(* the number 0 as "0", an object as "{post}", a string as its text.        *)

Truthy(v) == v \notin {"undefined", "null", "false", "0", ""}

(* An Error object; a thrown value that is not an Error has isError = FALSE *)
ErrorObj(message) == [isError |-> TRUE, message |-> message]

(* A thrown value that is not an Error, such as a string: it has no message *)
NonError(value) == [isError |-> FALSE, message |-> "undefined", value |-> value]

(* The value undefined, where an Error is expected *)
UndefinedValue == [isError |-> FALSE, message |-> "none", value |-> "undefined"]

----------------------------------------------------------------------------
(* OptimisticUpdates *)

UPDATE_TTL == 5 * 60 * 1000

UpdateIds == {"u1"}
OptimisticData == {"{post}", "0"}

isUpdateValidLate(timestamp) == DateNow - timestamp <= UPDATE_TTL

isUpdateValid(timestamp) == DateNow - timestamp < UPDATE_TTL

getUpdate(id) ==
    IF Has(updates, id) /\ isUpdateValid(updates[id].timestamp)
    THEN updates[id].data
    ELSE "undefined"

cleanupSkipped(m) == m

(* cleanup(): for (const [id, update] of this.updates)                      *)
(*                if (!this.isUpdateValid(update.timestamp)) delete(id)     *)
cleanup(m) == [id \in {x \in DOMAIN m : isUpdateValid(m[x].timestamp)} |-> m[id]]

setKeepsRollback(id, data, rollback) ==
    MapSet(updates, id, [id |-> id, data |-> data, timestamp |-> DateNow,
                         rollback |-> IF Has(updates, id) THEN updates[id].rollback ELSE rollback])

(* this.updates.set(id, {id, data, rollback, timestamp: Date.now()}) *)
set(id, data, rollback) ==
    MapSet(updates, id, [id |-> id, data |-> data, rollback |-> rollback, timestamp |-> DateNow])

(* addUpdate called by the application around a pipeline *)
addUpdate(id, data, rollback) ==
    /\ updates' = cleanup(set(id, data, rollback))
    /\ UNCHANGED <<now, pendingRequests, cache, ops, calls, returned, disturbed, config, libVars, queries>>

(* The OptimisticUpdates methods called directly.  lastCall keeps, of the   *)
(* latest call: the method and its arguments, the record of id the call     *)
(* found (seen), the registration of id still standing (latest), the value  *)
(* returned, the rollback callbacks the call invoked, and the call before.  *)
NoRecord == [id |-> "none"]

RegistryIds == {"u1", "u2"}

(* The (data, rollback) pairs callers register *)
Registrations == { <<"{post}", "r1">>, <<"0", "r2">> }

Seen(id) == IF Has(updates, id) THEN updates[id] ELSE NoRecord

CallOf(op, id, data, rollback, result, invoked) ==
    [ op |-> op, id |-> id, data |-> data, rollback |-> rollback,
      seen |-> Seen(id),
      latest |-> IF Has(registered, id) THEN registered[id] ELSE NoRecord,
      result |-> result, invoked |-> invoked,
      prev |-> IF lastCall = NoCall THEN <<"none", "none", <<>> >>
               ELSE <<lastCall.op, lastCall.id, lastCall.invoked>> ]

UnchangedByRegistry ==
    UNCHANGED <<now, pendingRequests, cache, ops, calls, returned, disturbed, config, queries,
                query, lastChain, built, storeVars>>

CallAddUpdate(id, data, rollback) ==
    /\ updates' = cleanup(set(id, data, rollback))
    /\ registered' = MapSet(registered, id,
           [id |-> id, data |-> data, rollback |-> rollback, timestamp |-> DateNow,
            replaced |-> IF Has(updates, id) THEN updates[id].rollback ELSE "none",
            invocations |-> 0])
    /\ lastCall' = CallOf("addUpdate", id, data, rollback, "undefined", <<>>)
    /\ UnchangedByRegistry

CallGetUpdate(id) ==
    /\ lastCall' = CallOf("getUpdate", id, "none", "none", getUpdate(id), <<>>)
    /\ UNCHANGED <<updates, registered>>
    /\ UnchangedByRegistry

deleteSkipped(id) == updates

(* this.updates.delete(id) *)
delete(id) == MapDelete(updates, id)

removeUpdate(id) ==
    /\ updates' = delete(id)
    /\ registered' = MapDelete(registered, id)
    /\ lastCall' = CallOf("removeUpdate", id, "none", "none", "undefined", <<>>)
    /\ UnchangedByRegistry

RollbackFindsLive(id) == Has(updates, id) /\ isUpdateValid(updates[id].timestamp)

(* const update = this.updates.get(id); if (update) *)
RollbackFinds(id) == Has(updates, id)

(* The rollback callbacks that throw when invoked *)
RollbackThrows(rollback) == rollback = "rThrow"

(* The invocations of the callback of one registration are counted up to   *)
(* MaxInvocations.                                                          *)
MaxInvocations == 2

(* update.rollback(); this.removeUpdate(id): a callback that throws leaves  *)
(* rollbackUpdate before removeUpdate is reached.  invocations counts, for  *)
(* the registration standing, the invocations of its callback.              *)
rollbackUpdate(id) ==
    /\ IF RollbackFinds(id)
       THEN IF RollbackThrows(updates[id].rollback)
            THEN /\ registered[id].invocations < MaxInvocations
                 /\ lastCall' = CallOf("rollbackUpdate", id, "none", "none", "throws",
                                       <<updates[id].rollback>>)
                 /\ registered' = [registered EXCEPT ![id].invocations = @ + 1]
                 /\ UNCHANGED updates
            ELSE /\ lastCall' = CallOf("rollbackUpdate", id, "none", "none", "undefined",
                                       <<updates[id].rollback>>)
                 /\ updates' = delete(id)
                 /\ registered' = MapDelete(registered, id)
       ELSE /\ lastCall' = CallOf("rollbackUpdate", id, "none", "none", "undefined", <<>>)
            /\ registered' = MapDelete(registered, id)
            /\ UNCHANGED updates
    /\ UnchangedByRegistry

(* Time passes between two calls. *)
Elapse ==
    /\ now < MaxTime
    /\ now' = now + 1
    /\ lastCall' = NoCall
    /\ UNCHANGED <<pendingRequests, cache, ops, calls, returned, disturbed, config, queries,
                   updates, registered, query, lastChain, built, storeVars>>

InitUpdates ==
    /\ now = 0
    /\ pendingRequests = EmptyMap
    /\ cache = EmptyMap
    /\ ops = <<>>
    /\ calls = <<>>
    /\ returned = <<>>
    /\ disturbed = {}
    /\ config = [enableDeduplication |-> FALSE]
    /\ queries = <<>>
    /\ updates = EmptyMap
    /\ InitLib

NextUpdates ==
    \/ \E id \in RegistryIds, r \in Registrations : CallAddUpdate(id, r[1], r[2])
    \/ \E id \in RegistryIds : CallGetUpdate(id)
    \/ \E id \in RegistryIds : removeUpdate(id)
    \/ \E id \in RegistryIds : rollbackUpdate(id)
    \/ Elapse

SpecUpdates == InitUpdates /\ [][NextUpdates]_vars

(* OptimisticUpdates with rollback callbacks that return and one that throws *)
ThrowingRegistrations == { <<"{post}", "r1">>, <<"{post}", "rThrow">> }

NextRollback ==
    \/ \E id \in RegistryIds, r \in ThrowingRegistrations : CallAddUpdate(id, r[1], r[2])
    \/ \E id \in RegistryIds : CallGetUpdate(id)
    \/ \E id \in RegistryIds : removeUpdate(id)
    \/ \E id \in RegistryIds : rollbackUpdate(id)
    \/ Elapse

SpecRollback == InitUpdates /\ [][NextRollback]_vars

----------------------------------------------------------------------------
(* lucentQuery *)

MaxQueries == 2

(* The request descriptors callers pass (LucentQueryArgs). *)
OriginalArgs ==
    { [url |-> u, headers |-> "none", params |-> "none", optimisticUpdateId |-> id,
       validateStatus |-> "default"] : u \in {"/posts"}, id \in {"undefined", "u1"} }

Statuses == {200, 500}

defaultValidateStatusWide(status) == status >= 200 /\ status <= 300

defaultValidateStatus(status) == status >= 200 /\ status < 300

validateStatus(d, status) ==
    IF d.validateStatus = "default" THEN defaultValidateStatus(status) ELSE TRUE

(* The interceptors the pipelines are configured with.  "auth" sets the     *)
(* Authorization header; "trace" copies the headers it sees into a query    *)
(* parameter; "stamp" marks a result; "e1" and "e2" annotate an error.      *)
(* "deny" throws an Error, and "denyText" a string, when handed a           *)
(* descriptor that carries an optimisticUpdateId; "unwrap" throws an Error  *)
(* instead of returning a result; "eThrow" throws an Error of its own and   *)
(* "eVoid" returns undefined instead of returning an error.                 *)
Throws(name, v) ==
    \/ name \in {"unwrap", "eThrow"}
    \/ name \in {"deny", "denyText"} /\ v.optimisticUpdateId # "undefined"

ThrownBy(name) ==
    CASE name = "deny" -> ErrorObj("denied")
      [] name = "denyText" -> NonError("denied")
      [] name = "unwrap" -> ErrorObj("no data")
      [] name = "eThrow" -> ErrorObj("handler failed")

requestInterceptor(name, d) ==
    CASE name = "auth" -> [d EXCEPT !.headers = "Bearer"]
      [] name = "trace" -> [d EXCEPT !.params = d.headers]
      [] OTHER -> d

responseInterceptor(name, data) == name \o "(" \o data \o ")"

errorInterceptor(name, e) ==
    IF name = "eVoid" THEN UndefinedValue
    ELSE ErrorObj(name \o "(" \o e.message \o ")")

(* The pipelines checked: deduplication with two request interceptors;     *)
(* deduplication and optimistic updates without interceptors; optimistic   *)
(* updates without deduplication, with a response interceptor and two      *)
(* error interceptors.                                                     *)
Configs ==
    { [enableDeduplication |-> TRUE, enableOptimisticUpdates |-> FALSE,
       requestInterceptors |-> <<"auth", "trace">>, responseInterceptors |-> <<>>,
       errorInterceptors |-> <<>>],
      [enableDeduplication |-> TRUE, enableOptimisticUpdates |-> TRUE,
       requestInterceptors |-> <<>>, responseInterceptors |-> <<>>,
       errorInterceptors |-> <<>>],
      [enableDeduplication |-> FALSE, enableOptimisticUpdates |-> TRUE,
       requestInterceptors |-> <<>>, responseInterceptors |-> <<"stamp">>,
       errorInterceptors |-> <<"e1", "e2">>] }

(* JSON.stringify(modifiedArgs): functions (validateStatus) are left out. *)
Stringify(d) ==
    [url |-> d.url, headers |-> d.headers, params |-> d.params,
     optimisticUpdateId |-> d.optimisticUpdateId]

(* The body the server answers invocation o of fetchFn with, once parsed. *)
BodyOf(o) == "body" \o ToString(o)

Unfinished(q) == queries[q].pc \notin {"resolved", "rejected"}

(* baseUrl = '' unless the configuration gives one *)
BaseUrl == IF "baseUrl" \in DOMAIN config THEN config.baseUrl ELSE ""

(* baseUrl keeps the baseUrl of the callable the call was made through. *)
NewQuery(args) ==
    [ args |-> args, margs |-> args, baseUrl |-> BaseUrl, pc |-> "request", i |-> 1, promise |-> NoPromise,
      invoked |-> 0, result |-> "undefined",
      caught |-> ErrorObj(""), modifiedError |-> ErrorObj(""), thrown |-> ErrorObj(""),
      short |-> FALSE, ran |-> <<>>, requestThrew |-> FALSE, responseThrew |-> FALSE,
      ranResponse |-> <<>>, ranError |-> <<>>,
      optLive |-> FALSE, optData |-> "undefined",
      inflight |-> {}, disturbed |-> FALSE,
      concurrent |-> {x \in DOMAIN queries : Unfinished(x)} ]

PutQuery(q, rec) ==
    IF q = Len(queries) + 1 THEN Append(queries, rec) ELSE [queries EXCEPT ![q] = rec]

(* The optimistic-update record of the pipeline's short-circuit at dispatch: *)
(* optimistic updates are enabled, the descriptor carries an id, a record    *)
(* for it exists and is younger than the TTL.                                *)
LiveRecord(m) ==
    /\ config.enableOptimisticUpdates
    /\ m.optimisticUpdateId # "undefined"
    /\ Has(updates, m.optimisticUpdateId)
    /\ DateNow - updates[m.optimisticUpdateId].timestamp < 5 * 60 * 1000

(* What the call saw when it left the request interceptors. *)
Dispatched(rec, m) ==
    [rec EXCEPT !.margs = m,
                !.optLive = LiveRecord(m),
                !.optData = IF LiveRecord(m)
                            THEN updates[m.optimisticUpdateId].data ELSE "undefined",
                !.inflight = InFlight(Stringify(m)),
                !.disturbed = Stringify(m) \in disturbed]

(* if (enableOptimisticUpdates && optimisticUpdateId) { ... if (optimisticData) *)
ShortCircuits(m) ==
    /\ config.enableOptimisticUpdates
    /\ Truthy(m.optimisticUpdateId)
    /\ Truthy(getUpdate(m.optimisticUpdateId))

(* timeout = 30000 unless the configuration gives one *)
Timeout == IF "timeout" \in DOMAIN config THEN config.timeout ELSE 30000

(* makeRequest(): builds the request, starts the timer of the abort         *)
(* controller and invokes fetchFn.                                          *)
makeRequest(m, dedup) ==
    Append(ops, [key |-> Stringify(m), dedup |-> dedup, status |-> "inflight",
                 value |-> "undefined", desc |-> m, httpStatus |-> 0, parsed |-> FALSE,
                 timer |-> "armed", due |-> DateNow + Timeout, aborted |-> FALSE,
                 atClearCache |-> "none",
                 fullUrl |-> BaseUrl \o m.url \o (IF m.params # "none" THEN "?trace=" \o m.params ELSE "")])

afterGetUpdateRollsBack(id) == MapDelete(updates, id)

(* The registry after optimisticUpdates.getUpdate(id), which only reads it *)
afterGetUpdate(id) == updates

(* Lines 36-129, run without suspension once the request interceptors are   *)
(* done: the optimistic short-circuit, then deduplicate(...) or makeRequest *)
Dispatch(q, rec, m) ==
    /\ updates' = IF config.enableOptimisticUpdates /\ Truthy(m.optimisticUpdateId)
                  THEN afterGetUpdate(m.optimisticUpdateId) ELSE updates
    /\ IF ShortCircuits(m)
       THEN /\ queries' = PutQuery(q, [Dispatched(rec, m) EXCEPT
                                         !.pc = "resolved", !.short = TRUE,
                                         !.result = getUpdate(m.optimisticUpdateId)])
            /\ UNCHANGED <<pendingRequests, ops>>
       ELSE IF ~config.enableDeduplication
       THEN /\ Len(ops) < MaxOps
            /\ ops' = makeRequest(m, FALSE)
            /\ queries' = PutQuery(q, [Dispatched(rec, m) EXCEPT
                                         !.pc = "await", !.promise = Len(ops) + 1, !.invoked = 1])
            /\ UNCHANGED pendingRequests
       ELSE IF CacheHit(Stringify(m), TRUE)
       THEN /\ queries' = PutQuery(q, [Dispatched(rec, m) EXCEPT
                                         !.pc = "await",
                                         !.result = cache[Stringify(m)].data])
            /\ UNCHANGED <<pendingRequests, ops>>
       ELSE IF HasPending(Stringify(m))
       THEN /\ queries' = PutQuery(q, [Dispatched(rec, m) EXCEPT
                                         !.pc = "await",
                                         !.promise = pendingRequests[Stringify(m)].promise])
            /\ UNCHANGED <<pendingRequests, ops>>
       ELSE /\ Len(ops) < MaxOps
            /\ ops' = makeRequest(m, TRUE)
            /\ pendingRequests' = MapSet(pendingRequests, Stringify(m),
                   [promise |-> Len(ops) + 1, timestamp |-> DateNow])
            /\ queries' = PutQuery(q, [Dispatched(rec, m) EXCEPT
                                         !.pc = "await", !.promise = Len(ops) + 1, !.invoked = 1])

(* What the call goes on with once it holds a result: the response          *)
(* interceptors, or return.                                                 *)
WithResult(rec, data) ==
    IF config.responseInterceptors = <<>>
    THEN [rec EXCEPT !.pc = "resolved", !.result = data]
    ELSE [rec EXCEPT !.pc = "response", !.i = 1, !.result = data]

(* throw new Error(`Request failed: ${modifiedError.message}`): reading the *)
(* message of undefined throws a TypeError instead.                         *)
FinalError(modifiedError) ==
    IF modifiedError = UndefinedValue
    THEN ErrorObj("Cannot read properties of undefined (reading 'message')")
    ELSE ErrorObj("Request failed: " \o modifiedError.message)

WithErrorThroughResponse(rec, e) ==
    IF config.responseInterceptors = <<>>
    THEN [rec EXCEPT !.pc = "rejected", !.caught = e, !.thrown = e]
    ELSE [rec EXCEPT !.pc = "response", !.i = 1, !.caught = e, !.result = e.message]

WithErrorRecovers(rec, e) == [rec EXCEPT !.pc = "resolved", !.caught = e, !.result = e.message]

(* catch (error): the error interceptors, or the final throw. *)
WithError(rec, e) ==
    IF ~e.isError
    THEN [rec EXCEPT !.pc = "rejected", !.caught = e, !.thrown = e]
    ELSE IF config.errorInterceptors = <<>>
    THEN [rec EXCEPT !.pc = "rejected", !.caught = e, !.modifiedError = e,
                     !.thrown = FinalError(e)]
    ELSE [rec EXCEPT !.pc = "error", !.i = 1, !.caught = e, !.modifiedError = e]

RequestInterceptorAtLast(rec) == config.requestInterceptors[Len(config.requestInterceptors) + 1 - rec.i]

(* for (const interceptor of requestInterceptors): the one awaited at rec.i *)
RequestInterceptorAt(rec) == config.requestInterceptors[rec.i]

(* A call of the callable: runs up to the first await. *)
Issue(args) ==
    /\ Len(queries) < MaxQueries
    /\ IF config.requestInterceptors = <<>>
       THEN Dispatch(Len(queries) + 1, NewQuery(args), args)
       ELSE /\ queries' = Append(queries, NewQuery(args))
            /\ UNCHANGED <<pendingRequests, ops, updates>>
    /\ UNCHANGED <<now, cache, calls, returned, disturbed, config, libVars>>

RequestThrewDispatches(q, rec, e) ==
    Dispatch(q, [rec EXCEPT !.requestThrew = TRUE], rec.margs)

(* await interceptor(modifiedArgs) throws: control passes to the catch block *)
RequestThrew(q, rec, e) ==
    /\ queries' = [queries EXCEPT ![q] = WithError([rec EXCEPT !.requestThrew = TRUE], e)]
    /\ UNCHANGED <<pendingRequests, ops, updates>>

(* modifiedArgs = await interceptor(modifiedArgs), then the next interceptor *)
(* or the rest of the body up to its next await.                            *)
RequestStep(q) ==
    /\ queries[q].pc = "request"
    /\ LET name == RequestInterceptorAt(queries[q])
           rec == [queries[q] EXCEPT !.ran = Append(@, name)]
       IN IF Throws(name, rec.margs)
          THEN RequestThrew(q, rec, ThrownBy(name))
          ELSE IF rec.i < Len(config.requestInterceptors)
          THEN /\ queries' = [queries EXCEPT ![q] =
                      [rec EXCEPT !.margs = requestInterceptor(name, rec.margs), !.i = rec.i + 1]]
               /\ UNCHANGED <<pendingRequests, ops, updates>>
          ELSE Dispatch(q, rec, requestInterceptor(name, rec.margs))
    /\ UNCHANGED <<now, cache, calls, returned, disturbed, config, libVars>>

(* The promise makeRequest() returned settles; under deduplicate the then() *)
(* handlers run with it.                                                    *)
SettleRequest(sofar, o, outcome) ==
    /\ ops' = [sofar EXCEPT ![o].status = IF outcome.kind = "fulfilled" THEN "resolved" ELSE "rejected",
                          ![o].value = outcome.val]
    /\ IF ~ops[o].dedup THEN UNCHANGED <<cache, pendingRequests>>
       ELSE IF outcome.kind = "fulfilled" THEN OnFulfilled(o, outcome.val)
       ELSE OnRejected(o, outcome.val)

clearTimeoutSkipped(op) == op

(* clearTimeout(timeoutId) *)
clearTimeout(op) == [op EXCEPT !.timer = "cleared"]

(* fetchFn resolves with a response: clearTimeout, validateStatus, then     *)
(* await response.json()                                                    *)
FetchResolve(o, status) ==
    /\ ops[o].status = "inflight"
    /\ IF validateStatus(ops[o].desc, status)
       THEN /\ ops' = [ops EXCEPT ![o] = [clearTimeout(@) EXCEPT !.status = "parsing",
                                                                  !.httpStatus = status]]
            /\ UNCHANGED <<cache, pendingRequests>>
       ELSE SettleRequest([ops EXCEPT ![o] = [clearTimeout(@) EXCEPT !.httpStatus = status]], o,
                Rejected(ErrorObj("Request failed with status " \o ToString(status))))
    /\ UNCHANGED <<now, calls, returned, disturbed, config, libVars, queries, updates>>

(* response.json() resolves: makeRequest returns {data, meta} *)
ParseDone(o) ==
    /\ ops[o].status = "parsing"
    /\ SettleRequest([ops EXCEPT ![o].parsed = TRUE], o, Fulfilled(BodyOf(o)))
    /\ UNCHANGED <<now, calls, returned, disturbed, config, libVars, queries, updates>>

(* fetchFn rejects (network failure) *)
FetchReject(o) ==
    /\ ops[o].status = "inflight"
    /\ SettleRequest(ops, o, Rejected(ErrorObj("network")))
    /\ UNCHANGED <<now, calls, returned, disturbed, config, libVars, queries, updates>>

(* The timer of invocation o has run out and has not been cleared. *)
TimerDue(o) == ops[o].timer = "armed" /\ DateNow >= ops[o].due

(* The rejection of a fetch whose signal is aborted *)
AbortError == ErrorObj("This operation was aborted")

(* setTimeout(() => controller.abort(), timeout) runs out: the signal is    *)
(* aborted, and a fetch that has not settled rejects with an AbortError.    *)
TimerFire(o) ==
    /\ TimerDue(o)
    /\ IF ops[o].status = "inflight"
       THEN SettleRequest([ops EXCEPT ![o].timer = "fired", ![o].aborted = TRUE], o,
                          Rejected(AbortError))
       ELSE /\ ops' = [ops EXCEPT ![o].timer = "fired", ![o].aborted = TRUE]
            /\ UNCHANGED <<cache, pendingRequests>>
    /\ UNCHANGED <<now, calls, returned, disturbed, config, libVars, queries, updates>>

(* Time passes; a timer that has run out fires before the clock moves on. *)
Advance ==
    /\ \A o \in DOMAIN ops : ~TimerDue(o)
    /\ Tick

(* response.json() rejects: the body is not JSON *)
ParseFail(o) ==
    /\ ops[o].status = "parsing"
    /\ SettleRequest([ops EXCEPT ![o].parsed = TRUE], o, Rejected(ErrorObj("Unexpected token")))
    /\ UNCHANGED <<now, calls, returned, disturbed, config, libVars, queries, updates>>

(* await deduplicator.deduplicate(...) / await makeRequest() resumes. *)
AwaitResume(q) ==
    /\ queries[q].pc = "await"
    /\ LET rec == queries[q]
       IN IF rec.promise = NoPromise
          THEN queries' = [queries EXCEPT ![q] = WithResult(rec, rec.result)]
          ELSE /\ SettledOp(rec.promise)
               /\ IF ops[rec.promise].status = "resolved"
                  THEN queries' = [queries EXCEPT ![q] = WithResult(rec, ops[rec.promise].value)]
                  ELSE queries' = [queries EXCEPT ![q] = WithError(rec, ops[rec.promise].value)]
    /\ UNCHANGED <<now, pendingRequests, cache, ops, calls, returned, disturbed, config, libVars, updates>>

(* modifiedResult = await interceptor(modifiedResult) *)
ResponseStep(q) ==
    /\ queries[q].pc = "response"
    /\ LET name == config.responseInterceptors[queries[q].i]
           rec == [queries[q] EXCEPT !.ranResponse = Append(@, name)]
           r == responseInterceptor(name, rec.result)
       IN queries' = [queries EXCEPT ![q] =
              IF Throws(name, rec.result)
              THEN WithError([rec EXCEPT !.responseThrew = TRUE], ThrownBy(name))
              ELSE IF rec.i < Len(config.responseInterceptors)
              THEN [rec EXCEPT !.result = r, !.i = rec.i + 1]
              ELSE [rec EXCEPT !.result = r, !.pc = "resolved"]]
    /\ UNCHANGED <<now, pendingRequests, cache, ops, calls, returned, disturbed, config, libVars, updates>>

(* modifiedError = await interceptor(error): every interceptor is handed    *)
(* the caught error; what an interceptor throws leaves the catch block as   *)
(* it is.                                                                   *)
ErrorStep(q) ==
    /\ queries[q].pc = "error"
    /\ LET name == config.errorInterceptors[queries[q].i]
           rec == [queries[q] EXCEPT !.ranError = Append(@, name)]
           e == errorInterceptor(name, rec.caught)
       IN queries' = [queries EXCEPT ![q] =
              IF Throws(name, rec.caught)
              THEN [rec EXCEPT !.pc = "rejected", !.thrown = ThrownBy(name)]
              ELSE IF rec.i < Len(config.errorInterceptors)
              THEN [rec EXCEPT !.modifiedError = e, !.i = rec.i + 1]
              ELSE [rec EXCEPT !.modifiedError = e, !.pc = "rejected",
                               !.thrown = FinalError(e)]]
    /\ UNCHANGED <<now, pendingRequests, cache, ops, calls, returned, disturbed, config, libVars, updates>>

InitQuery ==
    /\ now = 0
    /\ pendingRequests = EmptyMap
    /\ cache = EmptyMap
    /\ ops = <<>>
    /\ calls = <<>>
    /\ returned = <<>>
    /\ disturbed = {}
    /\ config \in Configs
    /\ queries = <<>>
    /\ updates = EmptyMap
    /\ InitLib

(* Callers register optimistic updates only with a pipeline that reads them. *)
RegistryInUse == config.enableOptimisticUpdates

(* The steps of the pipeline.  The calls are followed within one tick of    *)
(* the clock, no cache entry or optimistic record expiring meanwhile;      *)
(* expiry of cache entries is followed under Spec.                         *)
NextQuery ==
    \/ \E args \in OriginalArgs : Issue(args)
    \/ \E q \in DOMAIN queries : RequestStep(q)
    \/ \E o \in DOMAIN ops, status \in Statuses : FetchResolve(o, status)
    \/ \E o \in DOMAIN ops : ParseDone(o)
    \/ \E o \in DOMAIN ops : FetchReject(o)
    \/ \E q \in DOMAIN queries : AwaitResume(q)
    \/ \E q \in DOMAIN queries : ResponseStep(q)
    \/ \E q \in DOMAIN queries : ErrorStep(q)
    \/ RegistryInUse /\ \E id \in UpdateIds, data \in OptimisticData : addUpdate(id, data, "r1")
    \/ clearPending

SpecQuery == InitQuery /\ [][NextQuery]_vars

----------------------------------------------------------------------------
(* The failure paths of lucentQuery *)

(* Pipelines in which something fails: a request interceptor throwing an    *)
(* Error between two others; a request interceptor throwing a string; a     *)
(* response interceptor throwing, with an error interceptor that throws     *)
(* too; an error interceptor returning undefined; no error interceptor; a   *)
(* response interceptor and an error interceptor that both return.          *)
FailConfigs ==
    { [enableDeduplication |-> TRUE, enableOptimisticUpdates |-> FALSE,
       requestInterceptors |-> <<"auth", "deny", "trace">>, responseInterceptors |-> <<>>,
       errorInterceptors |-> <<"e1">>],
      [enableDeduplication |-> TRUE, enableOptimisticUpdates |-> FALSE,
       requestInterceptors |-> <<"denyText">>, responseInterceptors |-> <<>>,
       errorInterceptors |-> <<"e1">>],
      [enableDeduplication |-> FALSE, enableOptimisticUpdates |-> FALSE,
       requestInterceptors |-> <<>>, responseInterceptors |-> <<"unwrap">>,
       errorInterceptors |-> <<"eThrow">>],
      [enableDeduplication |-> TRUE, enableOptimisticUpdates |-> FALSE,
       requestInterceptors |-> <<>>, responseInterceptors |-> <<>>,
       errorInterceptors |-> <<"eVoid">>],
      [enableDeduplication |-> TRUE, enableOptimisticUpdates |-> FALSE,
       requestInterceptors |-> <<>>, responseInterceptors |-> <<"stamp">>,
       errorInterceptors |-> <<>>],
      [enableDeduplication |-> FALSE, enableOptimisticUpdates |-> FALSE,
       requestInterceptors |-> <<>>, responseInterceptors |-> <<"stamp">>,
       errorInterceptors |-> <<"e1">>] }

(* The response statuses around the limits of defaultValidateStatus *)
EdgeStatuses == {199, 200, 299, 300}

InitFail ==
    /\ now = 0
    /\ pendingRequests = EmptyMap
    /\ cache = EmptyMap
    /\ ops = <<>>
    /\ calls = <<>>
    /\ returned = <<>>
    /\ disturbed = {}
    /\ config \in FailConfigs
    /\ queries = <<>>
    /\ updates = EmptyMap
    /\ InitLib

NextFail ==
    \/ \E args \in OriginalArgs : Issue(args)
    \/ \E q \in DOMAIN queries : RequestStep(q)
    \/ \E o \in DOMAIN ops, status \in EdgeStatuses : FetchResolve(o, status)
    \/ \E o \in DOMAIN ops : ParseDone(o)
    \/ \E o \in DOMAIN ops : ParseFail(o)
    \/ \E o \in DOMAIN ops : FetchReject(o)
    \/ \E q \in DOMAIN queries : AwaitResume(q)
    \/ \E q \in DOMAIN queries : ResponseStep(q)
    \/ \E q \in DOMAIN queries : ErrorStep(q)

SpecFail == InitFail /\ [][NextFail]_vars

----------------------------------------------------------------------------
(* The timeout of the network call *)

(* Pipelines with the default timeout of 30 seconds and with a timeout of   *)
(* five minutes.                                                            *)
TimeoutConfigs ==
    { [enableDeduplication |-> TRUE, enableOptimisticUpdates |-> FALSE,
       requestInterceptors |-> <<>>, responseInterceptors |-> <<>>,
       errorInterceptors |-> <<>>],
      [enableDeduplication |-> FALSE, enableOptimisticUpdates |-> FALSE,
       requestInterceptors |-> <<>>, responseInterceptors |-> <<>>,
       errorInterceptors |-> <<>>, timeout |-> 5 * 60 * 1000] }

InitTimeout ==
    /\ now = 0
    /\ pendingRequests = EmptyMap
    /\ cache = EmptyMap
    /\ ops = <<>>
    /\ calls = <<>>
    /\ returned = <<>>
    /\ disturbed = {}
    /\ config \in TimeoutConfigs
    /\ queries = <<>>
    /\ updates = EmptyMap
    /\ InitLib

NextTimeout ==
    \/ \E args \in OriginalArgs : Issue(args)
    \/ \E o \in DOMAIN ops, status \in Statuses : FetchResolve(o, status)
    \/ \E o \in DOMAIN ops : ParseDone(o)
    \/ \E o \in DOMAIN ops : FetchReject(o)
    \/ \E o \in DOMAIN ops : TimerFire(o)
    \/ \E q \in DOMAIN queries : AwaitResume(q)
    \/ Advance

SpecTimeout == InitTimeout /\ [][NextTimeout]_vars

----------------------------------------------------------------------------
(* Callables built by several lucentQuery(...) calls over the one deduplicator *)

BaseUrls == {"https://a.example", "https://b.example"}

(* Descriptors that differ only in validateStatus: the default, and         *)
(* (status) => true.                                                        *)
SharedArgs ==
    { [url |-> "/posts", headers |-> "none", params |-> "none", optimisticUpdateId |-> "undefined",
       validateStatus |-> v] : v \in {"default", "any"} }

(* lucentQuery({ ...config, baseUrl }): another callable is built and the   *)
(* calls are made through it from now on; RequestDeduplicator.getInstance() *)
(* hands it the deduplicator of the callables built before.                 *)
lucentQueryWith(b) ==
    /\ b # config.baseUrl
    /\ config' = [config EXCEPT !.baseUrl = b]
    /\ UNCHANGED <<now, pendingRequests, cache, ops, calls, returned, disturbed, queries, updates,
                   libVars>>

InitShared ==
    /\ now = 0
    /\ pendingRequests = EmptyMap
    /\ cache = EmptyMap
    /\ ops = <<>>
    /\ calls = <<>>
    /\ returned = <<>>
    /\ disturbed = {}
    /\ config = [enableDeduplication |-> TRUE, enableOptimisticUpdates |-> FALSE,
                 requestInterceptors |-> <<>>, responseInterceptors |-> <<>>,
                 errorInterceptors |-> <<>>, baseUrl |-> "https://a.example"]
    /\ queries = <<>>
    /\ updates = EmptyMap
    /\ InitLib

NextShared ==
    \/ \E args \in SharedArgs : Issue(args)
    \/ \E b \in BaseUrls : lucentQueryWith(b)
    \/ \E o \in DOMAIN ops, status \in Statuses : FetchResolve(o, status)
    \/ \E o \in DOMAIN ops : ParseDone(o)
    \/ \E o \in DOMAIN ops : FetchReject(o)
    \/ \E q \in DOMAIN queries : AwaitResume(q)

SpecShared == InitShared /\ [][NextShared]_vars

----------------------------------------------------------------------------
(* lucentQuery and the registry of optimistic updates, with the clock *)

(* A pipeline that reads optimistic updates, with the default timeout *)
RegistryConfig ==
    [enableDeduplication |-> TRUE, enableOptimisticUpdates |-> TRUE,
     requestInterceptors |-> <<>>, responseInterceptors |-> <<>>,
     errorInterceptors |-> <<>>]

InitRegistry ==
    /\ now = 0
    /\ pendingRequests = EmptyMap
    /\ cache = EmptyMap
    /\ ops = <<>>
    /\ calls = <<>>
    /\ returned = <<>>
    /\ disturbed = {}
    /\ config = RegistryConfig
    /\ queries = <<>>
    /\ updates = EmptyMap
    /\ InitLib

(* The calls of the pipeline, short-circuited or sent over the network,     *)
(* while the application registers optimistic updates and time passes.      *)
NextRegistry ==
    \/ \E args \in OriginalArgs : Issue(args)
    \/ \E o \in DOMAIN ops, status \in Statuses : FetchResolve(o, status)
    \/ \E o \in DOMAIN ops : ParseDone(o)
    \/ \E o \in DOMAIN ops : FetchReject(o)
    \/ \E o \in DOMAIN ops : TimerFire(o)
    \/ \E q \in DOMAIN queries : AwaitResume(q)
    \/ \E id \in UpdateIds : addUpdate(id, "{post}", "r1")
    \/ Advance

SpecRegistry == InitRegistry /\ [][NextRegistry]_vars


----------------------------------------------------------------------------
(* QueryBuilder *)

(* Parameter values are written as strings, the number 10 as "10". *)
baseUrl == "/api"

RECURSIVE join(_)
(* fields.join(',') *)
join(fields) ==
    IF Len(fields) = 0 THEN ""
    ELSE IF Len(fields) = 1 THEN fields[1]
    ELSE fields[1] \o "," \o join(Tail(fields))

spreadReplaces(params, written) == written

(* { ...this.query.params, ...written } *)
spread(params, written) ==
    [k \in (DOMAIN params) \cup (DOMAIN written) |->
        IF k \in DOMAIN written THEN written[k] ELSE params[k]]

(* `${direction === 'desc' ? '-' : ''}${field}` *)
sortParam(field, direction) == (IF direction = "desc" THEN "-" ELSE "") \o field

(* The conditions callers pass to where: one key, another key, and keys     *)
(* that orderBy and limit write too.                                        *)
Conditions ==
    { [k \in {"status"} |-> "published"],
      [k \in {"category"} |-> "news"],
      [k \in {"sort", "_limit"} |-> IF k = "sort" THEN "title" ELSE "5"] }

SortFields == {"x", "y"}
Directions == {"asc", "desc"}

(* A chain method called with args has set this.query.params to params;     *)
(* overwritten keeps the parameters it replaced.                            *)
assignedInPlace(descriptors, written) ==
    [i \in DOMAIN descriptors |->
        IF descriptors[i].shared
        THEN [descriptors[i] EXCEPT !.desc.params = spread(@, written)]
        ELSE descriptors[i]]

(* this.query.params = { ... } (and this.query = {}) assigns a new object:  *)
(* the descriptors that held the params object of the builder keep the old  *)
(* one, which the builder no longer refers to.                              *)
assigned(descriptors, written) ==
    [i \in DOMAIN descriptors |-> [descriptors[i] EXCEPT !.shared = FALSE]]

Chained(op, args, written) ==
    /\ query' = spread(query, written)
    /\ built' = assigned(built, written)
    /\ lastChain' = [op |-> op, args |-> args,
                     overwritten |-> [k \in (DOMAIN written) \cap (DOMAIN query) |-> query[k]]]
    /\ UNCHANGED <<now, pendingRequests, cache, ops, calls, returned, disturbed, config, queries,
                   updates, registered, lastCall, storeVars>>

select(fields) == Chained("select", [fields |-> fields], [k \in {"select"} |-> join(fields)])

where(conditions) == Chained("where", [conditions |-> conditions], conditions)

orderBy(field, direction) ==
    Chained("orderBy", [field |-> field, direction |-> direction],
            [k \in {"sort"} |-> sortParam(field, direction)])

limit(count) == Chained("limit", [count |-> count], [k \in {"_limit"} |-> count])

offset(count) == Chained("offset", [count |-> count], [k \in {"_start"} |-> count])

include(relations) ==
    Chained("include", [relations |-> relations], [k \in {"_embed"} |-> join(relations)])

search(q) == Chained("search", [q |-> q], [k \in {"q"} |-> q])

Endpoints == {"/posts", "/users"}

(* Consecutive build calls are counted up to MaxBuilds. *)
MaxBuilds == 2

descriptorBare(endpoint) == [url |-> baseUrl \o endpoint, method |-> "GET"]

(* { url: `${baseUrl}${endpoint}`, method: 'GET', ...this.query }: this.query *)
(* has a params member once a chain method has run since the last reset().   *)
descriptor(endpoint) ==
    IF query = EmptyMap
    THEN [url |-> baseUrl \o endpoint, method |-> "GET"]
    ELSE [url |-> baseUrl \o endpoint, method |-> "GET", params |-> query]

(* The number of build calls made in a row, this one included. *)
BuildsInARow == IF lastChain.op = "build" THEN lastChain.builds + 1 ELSE 1

(* build(endpoint) *)
build(endpoint) ==
    /\ BuildsInARow <= MaxBuilds
    /\ lastChain' = [op |-> "build", args |-> [endpoint |-> endpoint],
                     result |-> descriptor(endpoint), builds |-> BuildsInARow]
    /\ UNCHANGED <<now, pendingRequests, cache, ops, calls, returned, disturbed, config, queries,
                   updates, registered, lastCall, query, built, storeVars>>

(* The descriptors callers keep are counted up to MaxBuilt. *)
MaxBuilt == 2

(* build(endpoint), the caller keeping the descriptor returned.  The spread *)
(* ...this.query copies the reference of this.query.params: shared tells    *)
(* that the params of the descriptor is the params object of the builder.   *)
buildKept(endpoint) ==
    /\ Len(built) < MaxBuilt
    /\ built' = Append(built, [desc |-> descriptor(endpoint), shared |-> query # EmptyMap])
    /\ lastChain' = [op |-> "build", args |-> [endpoint |-> endpoint],
                     result |-> descriptor(endpoint), builds |-> 1]
    /\ UNCHANGED <<now, pendingRequests, cache, ops, calls, returned, disturbed, config, queries,
                   updates, registered, lastCall, query, storeVars>>

(* reset(): this.query = {} *)
reset ==
    /\ query' = EmptyMap
    /\ built' = assigned(built, EmptyMap)
    /\ lastChain' = [op |-> "reset"]
    /\ UNCHANGED <<now, pendingRequests, cache, ops, calls, returned, disturbed, config, queries,
                   updates, registered, lastCall, storeVars>>

InitBuilder ==
    /\ now = 0
    /\ pendingRequests = EmptyMap
    /\ cache = EmptyMap
    /\ ops = <<>>
    /\ calls = <<>>
    /\ returned = <<>>
    /\ disturbed = {}
    /\ config = [enableDeduplication |-> FALSE]
    /\ queries = <<>>
    /\ updates = EmptyMap
    /\ InitLib

NextBuilder ==
    \/ select(<<"id", "title">>)
    \/ \E conditions \in Conditions : where(conditions)
    \/ \E field \in SortFields, direction \in Directions : orderBy(field, direction)
    \/ limit("10")
    \/ offset("0")
    \/ include(<<"author">>)
    \/ search("tla")
    \/ \E endpoint \in Endpoints : build(endpoint)
    \/ reset

SpecBuilder == InitBuilder /\ [][NextBuilder]_vars

(* A builder whose descriptors are kept while it is used further *)
NextDescriptor ==
    \/ where([k \in {"status"} |-> "published"])
    \/ \E direction \in Directions : orderBy("x", direction)
    \/ limit("10")
    \/ buildKept("/posts")
    \/ reset

SpecDescriptor == InitBuilder /\ [][NextDescriptor]_vars

----------------------------------------------------------------------------
(* The store (zustand) and the partial updates passed to its setState *)

(* An object { count: v }, or the updater function                          *)
(* (state) => ({ count: (state.count + 1) % 2 }).                           *)
ObjectPartial(v) == [kind |-> "object", value |-> [count |-> v]]
Increment == [kind |-> "function", name |-> "increment"]

(* typeof partial === 'function' ? partial(store.getState()) : partial *)
NextStateOf(partial, state) ==
    IF partial.kind = "function" THEN [count |-> (state.count + 1) % 2] ELSE partial.value

(* The store's own setState(partial, false): Object.assign({}, state, nextState) *)
merge(state, nextState) ==
    [k \in (DOMAIN state) \cup (DOMAIN nextState) |->
        IF k \in DOMAIN nextState THEN nextState[k] ELSE state[k]]

(* The variables of the request layer, which the store utilities never touch *)
requestVars ==
    <<now, pendingRequests, cache, ops, calls, returned, disturbed, config, queries, updates,
      registered, lastCall, query, lastChain, built>>

InitRequestIdle ==
    /\ now = 0
    /\ pendingRequests = EmptyMap
    /\ cache = EmptyMap
    /\ ops = <<>>
    /\ calls = <<>>
    /\ returned = <<>>
    /\ disturbed = {}
    /\ config = [enableDeduplication |-> FALSE]
    /\ queries = <<>>
    /\ updates = EmptyMap
    /\ registered = EmptyMap
    /\ lastCall = NoCall
    /\ query = EmptyMap
    /\ lastChain = NoCall
    /\ built = <<>>

----------------------------------------------------------------------------
(* TestHelper *)

MaxRecorders == 2
MaxChanges == 3

HelperPartials == {ObjectPartial(0), ObjectPartial(1), Increment}

(* The action argument of setState: not passed, or a name *)
HelperActions == {"undefined", "addItem"}

(* typeof action === 'string' ? action : 'unknown'; the wrapper calls the   *)
(* setState it wraps with false in the place of the action.                 *)
ActionLabel(action) == IF action \in {"undefined", "false"} THEN "unknown" ELSE action

RECURSIVE Pushed(_, _, _)
(* The entries pushed by a call of store.setState that n wrappers surround: *)
(* each wrapper pushes its entry and then calls the setState it replaced    *)
(* with (partial, false); the store is updated by the innermost one only,   *)
(* so every wrapper computes nextState from the same state.                 *)
Pushed(n, partial, action) ==
    IF n = 0 THEN <<>>
    ELSE <<[state |-> NextStateOf(partial, store), action |-> ActionLabel(action)]>>
         \o Pushed(n - 1, partial, "false")

(* recordStateChanges(): this.store.setState = wrapper around the current one *)
recordStateChanges ==
    /\ recorders < MaxRecorders
    /\ recorders' = recorders + 1
    /\ lastStore' = [op |-> "recordStateChanges"]
    /\ UNCHANGED <<requestVars, store, stateChanges, timeTravelState, offlineState, fetchStore>>

(* clearStateChanges(): this.stateChanges = [] *)
clearStateChanges ==
    /\ stateChanges' = <<>>
    /\ lastStore' = [op |-> "clearStateChanges"]
    /\ UNCHANGED <<requestVars, store, recorders, timeTravelState, offlineState, fetchStore>>

(* store.setState(partial, action), through the wrappers installed so far *)
setState(partial, action) ==
    /\ Len(stateChanges) + recorders <= MaxChanges
    /\ stateChanges' = stateChanges \o Pushed(recorders, partial, action)
    /\ store' = merge(store, NextStateOf(partial, store))
    /\ lastStore' = [op |-> "setState", partial |-> partial, action |-> action,
                     nextState |-> NextStateOf(partial, store)]
    /\ UNCHANGED <<requestVars, recorders, timeTravelState, offlineState, fetchStore>>

InitHelper == InitRequestIdle /\ InitStore

NextHelper ==
    \/ recordStateChanges
    \/ clearStateChanges
    \/ \E partial \in HelperPartials, action \in HelperActions : setState(partial, action)

SpecHelper == InitHelper /\ [][NextHelper]_vars

----------------------------------------------------------------------------
(* timeTravel middleware (back / forward / jumpTo) *)

(* const { maxHistory = 50, enableDevTools = true, recordActions = true } = config *)
maxHistory == 50
recordActions == TRUE

(* The calls of the wrapped setState are bounded by the length of the past. *)
MaxPast == 3

Counts == 1 .. 3
TravelActions == {"undefined", "increment"}

(* array.slice(-n) *)
sliceLast(array, n) ==
    IF Len(array) <= n THEN array ELSE SubSeq(array, Len(array) - n + 1, Len(array))

(* The time-travel state and the store, as one back() or forward() call     *)
(* reads and writes them.                                                   *)
Travel == [tt |-> timeTravelState, store |-> store]

backOnce(s) ==
    IF Len(s.tt.past) = 0 THEN s
    ELSE LET previous == s.tt.past[Len(s.tt.past)]
         IN [tt |-> [s.tt EXCEPT !.past = SubSeq(s.tt.past, 1, Len(s.tt.past) - 1),
                                 !.future = <<s.tt.present>> \o s.tt.future,
                                 !.present = previous,
                                 !.currentIndex = s.tt.currentIndex - 1],
             store |-> merge(s.store, previous)]

forwardOnce(s) ==
    IF Len(s.tt.future) = 0 THEN s
    ELSE LET next == s.tt.future[1]
         IN [tt |-> [s.tt EXCEPT !.past = Append(s.tt.past, s.tt.present),
                                 !.future = Tail(s.tt.future),
                                 !.present = next,
                                 !.currentIndex = s.tt.currentIndex + 1],
             store |-> merge(s.store, next)]

RECURSIVE backTimes(_, _)
(* for (let i = 0; i < steps; i++) back() *)
backTimes(s, steps) == IF steps <= 0 THEN s ELSE backTimes(backOnce(s), steps - 1)

RECURSIVE forwardTimes(_, _)
(* for (let i = 0; i < steps; i++) forward() *)
forwardTimes(s, steps) == IF steps <= 0 THEN s ELSE forwardTimes(forwardOnce(s), steps - 1)

jumped(s, index) ==
    IF index < 0 \/ index >= Len(s.tt.past) + Len(s.tt.future) + 1 THEN s
    ELSE IF index = s.tt.currentIndex THEN s
    ELSE IF index < s.tt.currentIndex THEN backTimes(s, s.tt.currentIndex - index)
    ELSE forwardTimes(s, index - s.tt.currentIndex)

Travelled(to, call) ==
    /\ timeTravelState' = to.tt
    /\ store' = to.store
    /\ lastStore' = call
    /\ UNCHANGED <<requestVars, recorders, stateChanges, offlineState, fetchStore>>

back == Travelled(backOnce(Travel), [op |-> "back"])

forward == Travelled(forwardOnce(Travel), [op |-> "forward"])

jumpTo(index) == Travelled(jumped(Travel, index), [op |-> "jumpTo", index |-> index])

(* The setState the middleware returns, wrapped around the store's own *)
wrappedSetState(partial, action) ==
    LET nextState == NextStateOf(partial, store)
        past == sliceLast(Append(timeTravelState.past, timeTravelState.present), maxHistory)
    IN /\ Len(timeTravelState.past) < MaxPast
       /\ action # "undefined" => Len(timeTravelState.actions) < MaxPast
       /\ timeTravelState' =
              [past |-> past, present |-> nextState, future |-> <<>>,
               currentIndex |-> Len(past),
               actions |-> IF recordActions /\ Truthy(action)
                           THEN sliceLast(Append(timeTravelState.actions, action), maxHistory)
                           ELSE timeTravelState.actions]
       /\ store' = merge(store, nextState)
       /\ lastStore' = [op |-> "wrappedSetState", nextState |-> nextState, action |-> action]
       /\ UNCHANGED <<requestVars, recorders, stateChanges, offlineState, fetchStore>>

InitTravel == InitRequestIdle /\ InitStore

NextTravel ==
    \/ \E v \in Counts, action \in TravelActions : wrappedSetState(ObjectPartial(v), action)
    \/ back
    \/ forward
    \/ \E index \in -1 .. MaxPast + 1 : jumpTo(index)

SpecTravel == InitTravel /\ [][NextTravel]_vars

----------------------------------------------------------------------------
(* undoRedo (src/middleware/undoRedo.ts): a history of past, present and     *)
(* future states, kept in timeTravelState, around a store whose setState     *)
(* replaces the state (createStore.tsx).  store.setState inside undo and     *)
(* redo is the setState of the store the middleware was given                *)
(* (applyMiddleware calls middleware(store) with the unwrapped store).       *)

UndoRedoPartials == {ObjectPartial(v) : v \in Counts} \cup {Increment}

(* The history and the store, as undo and redo read and write them. *)
History == [history |-> timeTravelState, store |-> store]

undoneFutureLost(h) ==
    IF Len(h.history.past) = 0 THEN h
    ELSE LET previous == h.history.past[Len(h.history.past)]
         IN [history |-> [past |-> SubSeq(h.history.past, 1, Len(h.history.past) - 1),
                          future |-> <<previous>> \o h.history.future,
                          present |-> previous],
             store |-> previous]

undone(h) ==
    IF Len(h.history.past) = 0 THEN h
    ELSE LET previous == h.history.past[Len(h.history.past)]
         IN [history |-> [past |-> SubSeq(h.history.past, 1, Len(h.history.past) - 1),
                          future |-> <<h.history.present>> \o h.history.future,
                          present |-> previous],
             store |-> previous]

redone(h) ==
    IF Len(h.history.future) = 0 THEN h
    ELSE LET next == Head(h.history.future)
         IN [history |-> [past |-> Append(h.history.past, h.history.present),
                          future |-> Tail(h.history.future),
                          present |-> next],
             store |-> next]

(* lastStore keeps, for the property of undo followed by redo, what undo    *)
(* found (before) and whether the call before a redo was an undo (after).   *)
undo ==
    /\ timeTravelState' = undone(History).history
    /\ store' = undone(History).store
    /\ lastStore' = [op |-> "undo", before |-> History]
    /\ UNCHANGED <<requestVars, recorders, stateChanges, offlineState, fetchStore>>

redo ==
    /\ timeTravelState' = redone(History).history
    /\ store' = redone(History).store
    /\ lastStore' = [op |-> "redo", after |-> lastStore.op,
                     before |-> IF lastStore.op = "undo" THEN lastStore.before ELSE History]
    /\ UNCHANGED <<requestVars, recorders, stateChanges, offlineState, fetchStore>>

(* The setState the middleware returns, wrapped around set *)
undoRedoSetState(partial) ==
    LET nextState == NextStateOf(partial, store)
    IN /\ Len(timeTravelState.past) < MaxPast
       /\ timeTravelState' =
              [past |-> sliceLast(Append(timeTravelState.past, timeTravelState.present),
                                  maxHistory),
               present |-> nextState,
               future |-> <<>>]
       /\ store' = nextState
       /\ lastStore' = [op |-> "setState", nextState |-> nextState]
       /\ UNCHANGED <<requestVars, recorders, stateChanges, offlineState, fetchStore>>

InitUndoRedo ==
    /\ InitRequestIdle
    /\ store = [count |-> 0]
    /\ recorders = 0
    /\ stateChanges = <<>>
    /\ timeTravelState = [past |-> <<>>, present |-> [count |-> 0], future |-> <<>>]
    /\ lastStore = NoCall
    /\ offlineState = NoOffline
    /\ fetchStore = NoFetchStore

NextUndoRedo ==
    \/ \E partial \in UndoRedoPartials : undoRedoSetState(partial)
    \/ undo
    \/ redo

SpecUndoRedo == InitUndoRedo /\ [][NextUndoRedo]_vars

----------------------------------------------------------------------------
(* timeTravel with undo and redo (src/middleware/timeTravel.ts), with its    *)
(* default configuration (recordActions false: no action is recorded),       *)
(* around a store whose setState replaces the state.                         *)

(* array[i] of JavaScript, i counted from 0 *)
At(array, i) == IF i + 1 \in DOMAIN array THEN array[i + 1] ELSE "undefined"

(* array.slice(i) *)
sliceFrom(array, i) ==
    IF i >= Len(array) THEN <<>> ELSE SubSeq(array, i + 1, Len(array))

timeTravelUndo ==
    /\ IF timeTravelState.currentIndex > 0
       THEN LET previousState == At(timeTravelState.past, timeTravelState.currentIndex - 1)
            IN /\ store' = previousState
               /\ timeTravelState' =
                      [timeTravelState EXCEPT
                          !.currentIndex = @ - 1,
                          !.present = previousState,
                          \* present has been assigned when the future is built
                          !.future = <<previousState>> \o @]
       ELSE UNCHANGED <<store, timeTravelState>>
    /\ lastStore' = [op |-> "undo", before |-> Travel]
    /\ UNCHANGED <<requestVars, recorders, stateChanges, offlineState, fetchStore>>

timeTravelRedo ==
    /\ IF Len(timeTravelState.future) > 0
       THEN LET nextState == Head(timeTravelState.future)
            IN /\ store' = nextState
               /\ timeTravelState' =
                      [timeTravelState EXCEPT
                          !.future = Tail(@),
                          !.currentIndex = @ + 1,
                          !.present = nextState]
       ELSE UNCHANGED <<store, timeTravelState>>
    /\ lastStore' = [op |-> "redo", after |-> lastStore.op,
                     before |-> IF lastStore.op = "undo" THEN lastStore.before ELSE Travel]
    /\ UNCHANGED <<requestVars, recorders, stateChanges, offlineState, fetchStore>>

timeTravelJumpTo(index) ==
    /\ IF index >= 0 /\ index < Len(timeTravelState.past)
       THEN LET targetState == At(timeTravelState.past, index)
            IN /\ store' = targetState
               /\ timeTravelState' =
                      [timeTravelState EXCEPT
                          !.currentIndex = index,
                          !.present = targetState,
                          !.future = sliceFrom(timeTravelState.past, index + 1)]
       ELSE UNCHANGED <<store, timeTravelState>>
    /\ lastStore' = [op |-> "jumpTo", index |-> index]
    /\ UNCHANGED <<requestVars, recorders, stateChanges, offlineState, fetchStore>>

clearHistory ==
    /\ timeTravelState' = [timeTravelState EXCEPT !.past = <<>>, !.future = <<>>,
                                                  !.currentIndex = 0, !.actions = <<>>]
    /\ lastStore' = [op |-> "clearHistory"]
    /\ UNCHANGED <<requestVars, store, recorders, stateChanges, offlineState, fetchStore>>

(* The setState the middleware returns, wrapped around set.  The states are *)
(* records of one number, so JSON.stringify tells them apart as = does.     *)
timeTravelSetState(partial) ==
    LET nextState == NextStateOf(partial, store)
        past == sliceLast(Append(timeTravelState.past, timeTravelState.present), maxHistory)
    IN /\ Len(timeTravelState.past) < MaxPast
       /\ IF timeTravelState.present # nextState
          THEN /\ timeTravelState' =
                      [timeTravelState EXCEPT !.past = past, !.present = nextState,
                                              !.future = <<>>, !.currentIndex = Len(past)]
               /\ store' = nextState
          ELSE UNCHANGED <<store, timeTravelState>>
       /\ lastStore' = [op |-> "setState", nextState |-> nextState]
       /\ UNCHANGED <<requestVars, recorders, stateChanges, offlineState, fetchStore>>

NextTimeTravel ==
    \/ \E partial \in UndoRedoPartials : timeTravelSetState(partial)
    \/ timeTravelUndo
    \/ timeTravelRedo
    \/ \E index \in -1 .. MaxPast : timeTravelJumpTo(index)
    \/ clearHistory

SpecTimeTravel == InitTravel /\ [][NextTimeTravel]_vars

----------------------------------------------------------------------------
(* The offline middleware (part_035): a queue of actions, processed by the   *)
(* async processQueue while online.  offlineState holds queue, isOnline and  *)
(* isProcessing of the source and, of the one processQueue run that can be   *)
(* past the isProcessing guard, the await it is suspended at (run: "try" is  *)
(* the saveQueue of the try block, "catch" the one of the catch block,       *)
(* "rejected" a run ended by an exception) and its variable action.  queued  *)
(* counts the actions queued and applied lists, in order, the actions whose  *)
(* store.setState returned: both are history.                               *)

maxRetries == 3

(* The actions queued are counted up to MaxQueued. *)
MaxQueued == 2

(* The catch block up to its saveQueue: an action with retries left is      *)
(* pushed to the back with one more retry; then the head of the queue is    *)
(* shifted away.                                                            *)
Caught(s) ==
    IF s.action.retries < maxRetries
    THEN LET retried == [s.action EXCEPT !.retries = @ + 1]
         IN [s EXCEPT !.queue = Tail(Append(@, retried)), !.action = retried, !.run = "catch"]
    ELSE [s EXCEPT !.queue = IF @ = <<>> THEN <<>> ELSE Tail(@), !.run = "catch"]

(* The while loop from its test to the next await, or to its end.  The      *)
(* setState of the store (createStore.tsx) assigns the state before it      *)
(* calls the listeners, so a setState that throws has changed the state.    *)
RunLoop(s, state, throws) ==
    IF s.queue = <<>>
    THEN [offline |-> [s EXCEPT !.isProcessing = FALSE, !.run = "none", !.action = NoAction],
          store |-> state]
    ELSE LET action == Head(s.queue)
         IN [offline |-> IF throws
                         THEN Caught([s EXCEPT !.action = action])
                         ELSE [s EXCEPT !.queue = Tail(@), !.action = action, !.run = "try",
                                        !.applied = Append(@, action.type)],
             store |-> merge(state, action.payload)]

(* processQueue() up to its first await *)
Started(s, state, throws) ==
    IF s.isProcessing \/ ~s.isOnline
    THEN [offline |-> s, store |-> state]
    ELSE RunLoop([s EXCEPT !.isProcessing = TRUE], state, throws)

pushed(s, payload) ==
    [s EXCEPT !.queue = Append(@, [type |-> s.queued + 1, payload |-> payload, retries |-> 0]),
              !.queued = @ + 1]

OfflineStep(to) ==
    /\ offlineState' = to.offline
    /\ store' = to.store
    /\ UNCHANGED <<requestVars, recorders, stateChanges, timeTravelState, lastStore, fetchStore>>

(* queueAction(action); the saveQueue() it starts is not awaited *)
queueAction(payload, throws) ==
    /\ offlineState.queued < MaxQueued
    /\ OfflineStep(IF offlineState.isOnline
                   THEN Started(pushed(offlineState, payload), store, throws)
                   ELSE [offline |-> pushed(offlineState, payload), store |-> store])

processQueue(throws) == OfflineStep(Started(offlineState, store, throws))

handleOnline(throws) ==
    OfflineStep(Started([offlineState EXCEPT !.isOnline = TRUE], store, throws))

handleOffline ==
    OfflineStep([offline |-> [offlineState EXCEPT !.isOnline = FALSE], store |-> store])

(* The saveQueue the run awaits settles: fulfilled (ok) or rejected. *)
saveQueueSettles(ok, throws) ==
    /\ offlineState.run \in {"try", "catch"}
    /\ OfflineStep(IF ok THEN RunLoop(offlineState, store, throws)
                   ELSE IF offlineState.run = "try"
                        THEN [offline |-> Caught(offlineState), store |-> store]
                        ELSE [offline |-> [offlineState EXCEPT !.run = "rejected"],
                              store |-> store])

(* The setState the middleware returns: set(nextState), and the state is    *)
(* queued when offline.                                                     *)
offlineSetState(partial) ==
    LET nextState == NextStateOf(partial, store)
    IN /\ ~offlineState.isOnline => offlineState.queued < MaxQueued
       /\ OfflineStep([offline |-> IF offlineState.isOnline THEN offlineState
                                   ELSE pushed(offlineState, nextState),
                       store |-> nextState])

InitOffline == InitRequestIdle /\ InitStore

NextOffline ==
    \/ \E throws \in BOOLEAN : queueAction([count |-> offlineState.queued + 1], throws)
    \/ \E throws \in BOOLEAN : processQueue(throws)
    \/ \E throws \in BOOLEAN : handleOnline(throws)
    \/ handleOffline
    \/ \E ok \in BOOLEAN, throws \in BOOLEAN : saveQueueSettles(ok, throws)
    \/ offlineSetState(Increment)

SpecOffline == InitOffline /\ [][NextOffline]_vars

(* A saveQueue awaited settles in the end. *)
SpecOfflineFair ==
    SpecOffline /\ WF_vars(\E ok \in BOOLEAN, throws \in BOOLEAN : saveQueueSettles(ok, throws))

----------------------------------------------------------------------------
(* createFetchStore (core/createFetchStore.ts): a store of data, status,     *)
(* error and lastUpdated, and the async fetchData with its retries.  A call  *)
(* of fetchData is a record in fetchStore.calls: its currentState, now and   *)
(* retries, where it is suspended (pc: "fetching" awaits fetchFn(), "delay"  *)
(* the retry delay) and, as history, the number of fetchFn() invocations     *)
(* (attempts), how it ended and the state of the store when it settled.      *)

(* The calls of fetchData are counted up to MaxFetches. *)
MaxFetches == 3

Retries == {0, 1}
StaleTimes == {0, 5}
FetchedData == {"d1", "d2"}

(* lastUpdated is a time, or NoTime for null *)
NoTime == -1

initialState == [data |-> "null", status |-> "idle", error |-> "null", lastUpdated |-> NoTime]

(* Date.now() is positive, so a lastUpdated that was set is truthy. *)
Fresh(currentState, force) ==
    /\ ~force
    /\ currentState.data # "null"
    /\ currentState.lastUpdated # NoTime
    /\ now - currentState.lastUpdated < fetchStore.mergedOptions.staleTime

(* retries === mergedOptions.retry, in the catch block *)
OutOfRetriesLate(retries) == retries = fetchStore.mergedOptions.retry + 1

OutOfRetries(retries) == retries = fetchStore.mergedOptions.retry

FetchStep(c, call, state) ==
    /\ fetchStore' = [fetchStore EXCEPT !.calls[c] = call]
    /\ store' = state
    /\ UNCHANGED <<requestVars, recorders, stateChanges, timeTravelState, lastStore,
                   offlineState>>

(* fetchData(force), up to the first await: fetchFn() has been called *)
fetchData(force) ==
    LET currentState == store
        c == Len(fetchStore.calls) + 1
        loading == [currentState EXCEPT !.status = "loading"]
        call == [currentState |-> currentState, now |-> now, force |-> force, retries |-> 0,
                 data |-> "null"]
    IN /\ Len(fetchStore.calls) < MaxFetches
       /\ fetchStore' =
              [fetchStore EXCEPT !.calls =
                  Append(@, IF Fresh(currentState, force)
                            THEN call @@ [pc |-> "resolved", attempts |-> 0, ended |-> "early",
                                          settled |-> store]
                            ELSE call @@ [pc |-> "fetching", attempts |-> 1, ended |-> "no",
                                          settled |-> "no"])]
       /\ store' = IF Fresh(currentState, force) THEN store ELSE loading
       /\ UNCHANGED <<requestVars, recorders, stateChanges, timeTravelState, lastStore,
                      offlineState>>

(* fetchFn() of call c fulfils with data *)
fetchFnFulfils(c, data) ==
    /\ c \in DOMAIN fetchStore.calls
    /\ fetchStore.calls[c].pc = "fetching"
    /\ LET state == [data |-> data, status |-> "success", error |-> "null",
                     lastUpdated |-> fetchStore.calls[c].now]
       IN FetchStep(c, [fetchStore.calls[c] EXCEPT !.pc = "resolved", !.ended = "success",
                                                   !.data = data, !.settled = state],
                    state)

(* fetchFn() of call c rejects, or throws *)
fetchFnRejects(c) ==
    /\ c \in DOMAIN fetchStore.calls
    /\ fetchStore.calls[c].pc = "fetching"
    /\ LET call == fetchStore.calls[c]
           state == [call.currentState EXCEPT !.status = "error", !.error = "Error"]
       IN IF OutOfRetries(call.retries)
          THEN FetchStep(c, [call EXCEPT !.pc = "rejected", !.ended = "error",
                                         !.settled = state], state)
          ELSE FetchStep(c, [call EXCEPT !.pc = "delay", !.retries = @ + 1], store)

(* The retry delay of call c is over: the while loop tests retries again. *)
retryDelayOver(c) ==
    /\ c \in DOMAIN fetchStore.calls
    /\ fetchStore.calls[c].pc = "delay"
    /\ LET call == fetchStore.calls[c]
       IN IF call.retries <= fetchStore.mergedOptions.retry
          THEN FetchStep(c, [call EXCEPT !.pc = "fetching", !.attempts = @ + 1], store)
          ELSE FetchStep(c, [call EXCEPT !.pc = "resolved", !.ended = "loop",
                                         !.settled = store], store)

InitFetch ==
    /\ InitRequestIdle
    /\ store = initialState
    /\ recorders = 0
    /\ stateChanges = <<>>
    /\ timeTravelState = [past |-> <<>>, present |-> [count |-> 0], future |-> <<>>,
                          currentIndex |-> 0, actions |-> <<>>]
    /\ lastStore = NoCall
    /\ offlineState = NoOffline
    /\ \E retry \in Retries, staleTime \in StaleTimes :
          fetchStore = [mergedOptions |-> [retry |-> retry, staleTime |-> staleTime],
                        calls |-> <<>>]

NextFetch ==
    \/ \E force \in BOOLEAN : fetchData(force)
    \/ \E c \in 1 .. MaxFetches, data \in FetchedData : fetchFnFulfils(c, data)
    \/ \E c \in 1 .. MaxFetches : fetchFnRejects(c)
    \/ \E c \in 1 .. MaxFetches : retryDelayOver(c)

SpecFetch == InitFetch /\ [][NextFetch]_vars

----------------------------------------------------------------------------
(* Properties of the lucentQuery pipeline, checked under SpecQuery *)

DispatchedQ(q) == queries[q].pc # "request"
FinishedQ(q) == queries[q].pc \in {"resolved", "rejected"}

(* What the caller of q received. *)
Final(q) == [pc |-> queries[q].pc, result |-> queries[q].result, thrown |-> queries[q].thrown]

(* C7 as stated: with deduplication on, two calls with identically          *)
(* serialized post-interceptor descriptors, the second issued before the    *)
(* first settled, cause exactly one fetchFn invocation and receive the same  *)
(* result; with deduplication off every call invokes fetchFn itself.         *)
C7_Original ==
    /\ config.enableDeduplication =>
          \A a, b \in DOMAIN queries :
              ( /\ a < b /\ a \in queries[b].concurrent
                /\ DispatchedQ(a) /\ DispatchedQ(b)
                /\ Stringify(queries[a].margs) = Stringify(queries[b].margs) )
              => /\ queries[a].invoked + queries[b].invoked = 1
                 /\ (FinishedQ(a) /\ FinishedQ(b)) => Final(a) = Final(b)
    /\ ~config.enableDeduplication =>
          \A q \in DOMAIN queries : DispatchedQ(q) => queries[q].invoked = 1

(* C7 amended: with deduplication on, a call that is not answered by the    *)
(* optimistic short-circuit and reaches the deduplicator while the network  *)
(* call of an identically serialized descriptor is in flight (no            *)
(* clearPending() having run while a call of that key was in flight)        *)
(* invokes nothing, holds the promise of that one network call, and every   *)
(* holder of one promise receives the same result or failure; with          *)
(* deduplication off, every call that is not short-circuited invokes        *)
(* fetchFn itself and shares it with no other call.                         *)
C7_SharedRoundTrip ==
    /\ config.enableDeduplication =>
          /\ \A b \in DOMAIN queries :
                ( /\ DispatchedQ(b) /\ ~queries[b].short
                  /\ queries[b].inflight # {} /\ ~queries[b].disturbed )
                => /\ queries[b].invoked = 0
                   /\ queries[b].inflight = {queries[b].promise}
          /\ \A a, b \in DOMAIN queries :
                ( /\ queries[a].promise # NoPromise
                  /\ queries[a].promise = queries[b].promise
                  /\ FinishedQ(a) /\ FinishedQ(b) )
                => Final(a) = Final(b)
    /\ ~config.enableDeduplication =>
          \A q \in DOMAIN queries :
              (DispatchedQ(q) /\ ~queries[q].short)
              => /\ queries[q].invoked = 1
                 /\ \A r \in DOMAIN queries : r # q => queries[r].promise # queries[q].promise

(* Two calls of one descriptor have resolved with the same body after one   *)
(* fetchFn invocation, made by the first of them to reach the deduplicator. *)
C7_Witness ==
    /\ config.enableDeduplication
    /\ Len(ops) = 1
    /\ \E a, b \in DOMAIN queries :
          /\ queries[a].invoked = 1 /\ queries[b].invoked = 0
          /\ queries[b].inflight = {1}
          /\ queries[a].pc = "resolved" /\ queries[b].pc = "resolved"
          /\ queries[a].result = BodyOf(1) /\ queries[b].result = BodyOf(1)

RECURSIVE InOrder(_, _)
(* g(f(d)) for interceptors <<f, g>>: the registration order *)
InOrder(names, d) ==
    IF names = <<>> THEN d
    ELSE InOrder(Tail(names), requestInterceptor(Head(names), d))

RECURSIVE Reversed(_, _)
(* f(g(d)) for interceptors <<f, g>> *)
Reversed(names, d) ==
    IF names = <<>> THEN d
    ELSE requestInterceptor(Head(names), Reversed(Tail(names), d))

(* C8: once the request interceptors <<f, g>> are done the descriptor is    *)
(* g(f(original)); the network call and the deduplication key are built     *)
(* from it, never from f(g(original)).                                      *)
C8_RequestInterceptorOrder ==
    \A q \in DOMAIN queries :
        DispatchedQ(q) =>
            /\ queries[q].margs = InOrder(config.requestInterceptors, queries[q].args)
            /\ Len(config.requestInterceptors) = 2 =>
                  queries[q].margs # Reversed(config.requestInterceptors, queries[q].args)
            /\ queries[q].invoked = 1 =>
                  /\ ops[queries[q].promise].desc
                        = InOrder(config.requestInterceptors, queries[q].args)
                  /\ ops[queries[q].promise].key
                        = Stringify(InOrder(config.requestInterceptors, queries[q].args))
                  /\ ops[queries[q].promise].fullUrl
                        = queries[q].args.url \o
                          (IF InOrder(config.requestInterceptors, queries[q].args).params # "none"
                           THEN "?trace=" \o InOrder(config.requestInterceptors, queries[q].args).params
                           ELSE "")

(* A call through the interceptors <<auth, trace>> has invoked fetchFn with  *)
(* the parameter trace saw after auth had set the header.                    *)
C8_Witness ==
    /\ config.requestInterceptors = <<"auth", "trace">>
    /\ \E q \in DOMAIN queries :
          /\ queries[q].invoked = 1
          /\ ops[queries[q].promise].desc.headers = "Bearer"
          /\ ops[queries[q].promise].desc.params = "Bearer"
          /\ ops[queries[q].promise].fullUrl = "/posts?trace=Bearer"

(* C9: a call that leaves the request interceptors with optimistic updates  *)
(* enabled and an optimisticUpdateId whose record is live resolves with the *)
(* record's data, whatever the data, and does not invoke fetchFn.           *)
C9_OptimisticShortCircuit ==
    \A q \in DOMAIN queries :
        (DispatchedQ(q) /\ queries[q].optLive) =>
            /\ queries[q].pc = "resolved"
            /\ queries[q].result = queries[q].optData
            /\ queries[q].invoked = 0
            /\ queries[q].promise = NoPromise

RECURSIVE ErrorChain(_, _)
(* en(...e1(error)) for error interceptors <<e1, ..., en>> *)
ErrorChain(names, e) ==
    IF names = <<>> THEN e
    ELSE ErrorChain(Tail(names), errorInterceptor(Head(names), e))

(* C10: the rejection a failed call delivers carries the message of          *)
(* en(...e1(error)), each error interceptor having received the error the    *)
(* previous one returned.                                                    *)
C10_ErrorInterceptorChain ==
    \A q \in DOMAIN queries :
        (queries[q].pc = "rejected" /\ queries[q].caught.isError) =>
            queries[q].thrown.message
                = "Request failed: " \o ErrorChain(config.errorInterceptors, queries[q].caught).message


----------------------------------------------------------------------------
(* Properties of the failure paths, checked under SpecFail *)

Prefix == "Request failed: "

StartsWith(text, start) ==
    /\ Len(text) >= Len(start)
    /\ SubSeq(text, 1, Len(start)) = start

Contains(text, part) ==
    \E i \in 1..(Len(text) + 1 - Len(part)) : SubSeq(text, i, i + Len(part) - 1) = part

(* C11: every rejection a call delivers is an Error whose message is the    *)
(* prefix 'Request failed: ' followed by the message of the underlying      *)
(* cause (as the error interceptors left it), whatever failed and whatever  *)
(* was thrown.                                                              *)
C11_RejectionPrefixed ==
    \A q \in DOMAIN queries :
        queries[q].pc = "rejected" =>
            /\ queries[q].thrown.isError
            /\ StartsWith(queries[q].thrown.message, Prefix)
            /\ config.errorInterceptors = <<>> =>
                  queries[q].thrown.message = Prefix \o queries[q].caught.message

(* Something failed in call q: a request or response interceptor threw, or  *)
(* the network call it waits for was rejected (transport, status            *)
(* validation or body parsing).                                             *)
FailedQ(q) ==
    \/ queries[q].requestThrew
    \/ queries[q].responseThrew
    \/ /\ queries[q].promise # NoPromise
       /\ ops[queries[q].promise].status = "rejected"

RECURSIVE UpToThrow(_, _)
UpToThrow(names, d) ==
    IF names = <<>> THEN <<>>
    ELSE IF Throws(Head(names), d) THEN <<Head(names)>>
    ELSE <<Head(names)>> \o UpToThrow(Tail(names), requestInterceptor(Head(names), d))

(* C13: when a request interceptor throws, the interceptors after it are    *)
(* not run, the call invokes fetchFn never and holds no promise of the      *)
(* deduplicator, the step leaves the pending map, the cache and the         *)
(* network calls as they were, and the call goes to its rejection.          *)
C13_RequestInterceptorThrows ==
    /\ [](\A q \in DOMAIN queries :
             queries[q].requestThrew =>
                 /\ queries[q].ran = UpToThrow(config.requestInterceptors, queries[q].args)
                 /\ queries[q].margs
                       = InOrder(SubSeq(queries[q].ran, 1, Len(queries[q].ran) - 1), queries[q].args)
                 /\ queries[q].invoked = 0
                 /\ queries[q].promise = NoPromise
                 /\ queries[q].pc \in {"error", "rejected"})
    /\ [][\A q \in DOMAIN queries :
             (~queries[q].requestThrew /\ queries'[q].requestThrew)
                 => /\ pendingRequests' = pendingRequests
                    /\ cache' = cache
                    /\ ops' = ops]_vars

(* The second of three request interceptors threw for a call, while another *)
(* call's network request was pending in the deduplicator; the third was    *)
(* not run and the call is rejected.                                        *)
C13_Witness ==
    /\ config.requestInterceptors = <<"auth", "deny", "trace">>
    /\ pendingRequests # EmptyMap
    /\ \E q \in DOMAIN queries :
          /\ queries[q].requestThrew
          /\ queries[q].ran = <<"auth", "deny">>
          /\ queries[q].pc = "rejected"
          /\ queries[q].thrown = ErrorObj("Request failed: e1(denied)")

ValidDefault(s) == 200 <= s /\ s <= 299

(* C14 as stated: with the default validateStatus a call whose response has *)
(* status s succeeds iff 200 <= s <= 299, and otherwise rejects with a      *)
(* message containing s, no body having been parsed.                        *)
C14_Original ==
    \A q \in DOMAIN queries :
        ( /\ FinishedQ(q)
          /\ queries[q].promise # NoPromise
          /\ ops[queries[q].promise].httpStatus # 0 )
        => LET o == queries[q].promise
           IN /\ queries[q].pc = "resolved" <=> ValidDefault(ops[o].httpStatus)
              /\ ~ValidDefault(ops[o].httpStatus) =>
                    /\ Contains(queries[q].thrown.message, ToString(ops[o].httpStatus))
                    /\ ~ops[o].parsed

(* C14 amended: with the default validateStatus a response passes status    *)
(* validation iff 200 <= s <= 299.  A response that passes has its body     *)
(* parsed, and the call resolves provided the body parses and no response   *)
(* interceptor throws.  For any other status the network call rejects with  *)
(* an Error whose message contains s, the body is not parsed and the call   *)
(* never resolves; without error interceptors the message the caller        *)
(* receives contains s.                                                     *)
C14_StatusValidation ==
    /\ \A o \in DOMAIN ops :
          ops[o].httpStatus # 0 =>
              IF ValidDefault(ops[o].httpStatus)
              THEN \/ ops[o].status = "parsing" /\ ~ops[o].parsed
                   \/ ops[o].status \in {"resolved", "rejected"} /\ ops[o].parsed
              ELSE /\ ops[o].status = "rejected"
                   /\ ~ops[o].parsed
                   /\ ops[o].value.isError
                   /\ Contains(ops[o].value.message, ToString(ops[o].httpStatus))
    /\ \A q \in DOMAIN queries :
          ( /\ FinishedQ(q)
            /\ queries[q].promise # NoPromise
            /\ ops[queries[q].promise].httpStatus # 0 )
          => LET o == queries[q].promise
             IN /\ queries[q].pc = "resolved" => ValidDefault(ops[o].httpStatus)
                /\ (ops[o].status = "resolved" /\ ~queries[q].responseThrew)
                      => queries[q].pc = "resolved"
                /\ (~ValidDefault(ops[o].httpStatus) /\ config.errorInterceptors = <<>>)
                      => Contains(queries[q].thrown.message, ToString(ops[o].httpStatus))

(* One call resolved on a response of status 299 and another was rejected   *)
(* on a response of status 300, with the status in its message.             *)
C14_Witness ==
    \E a, b \in DOMAIN queries :
        /\ queries[a].pc = "resolved" /\ queries[a].invoked = 1
        /\ ops[queries[a].promise].httpStatus = 299
        /\ queries[b].pc = "rejected" /\ queries[b].invoked = 1
        /\ ops[queries[b].promise].httpStatus = 300
        /\ queries[b].thrown = ErrorObj("Request failed: Request failed with status 300")


----------------------------------------------------------------------------
(* Properties of the timeout, checked under SpecTimeout *)

(* C15: no call of fetchFn stays unsettled beyond the configured timeout    *)
(* (to the resolution of the clock, one tick):                              *)
(* when the timer runs out first the abort signal is triggered, the         *)
(* network call is rejected and every call waiting for it rejects; when     *)
(* fetchFn resolves first the timer is cancelled and the abort signal is    *)
(* never triggered for that call.                                           *)
C15_TimeoutAborts ==
    /\ \A o \in DOMAIN ops :
          /\ ops[o].status = "inflight" =>
                /\ ops[o].timer = "armed"
                /\ DateNow < ops[o].due + MsPerTick
          /\ ops[o].timer = "fired" =>
                /\ ops[o].aborted
                /\ ops[o].status = "rejected"
                /\ DateNow >= ops[o].due
          /\ ops[o].aborted => ops[o].timer = "fired"
          /\ (ops[o].httpStatus # 0 \/ ops[o].status \in {"parsing", "resolved"}) =>
                /\ ops[o].timer = "cleared"
                /\ ~ops[o].aborted
    /\ \A q \in DOMAIN queries :
          ( /\ queries[q].promise # NoPromise
            /\ ops[queries[q].promise].aborted
            /\ ops[queries[q].promise].value = AbortError
            /\ queries[q].pc # "await" )
          => /\ queries[q].pc = "rejected"
             /\ queries[q].thrown = ErrorObj("Request failed: This operation was aborted")

(* At the same moment, one call was rejected because the default timeout    *)
(* ran out on its unsettled network call, and the network call of another   *)
(* has resolved in time and outlived its timeout without being aborted.     *)
C15_Witness ==
    /\ "timeout" \notin DOMAIN config
    /\ \E a, b \in DOMAIN queries :
          /\ queries[a].invoked = 1 /\ queries[a].pc = "rejected"
          /\ ops[queries[a].promise].aborted
          /\ ops[queries[a].promise].value = AbortError
          /\ queries[b].invoked = 1 /\ queries[b].pc = "resolved"
          /\ ops[queries[b].promise].timer = "cleared"
          /\ ~ops[queries[b].promise].aborted
          /\ DateNow >= ops[queries[b].promise].due


----------------------------------------------------------------------------
(* Properties of OptimisticUpdates, checked under SpecUpdates *)

(* The age, at the latest call, of the record the call found *)
SeenAge == DateNow - lastCall.seen.timestamp

(* C16: getUpdate(id) returns the registered data iff a record of id exists *)
(* and its age is under five minutes, undefined otherwise (also for a        *)
(* record of that age or older that is still stored), and it leaves every   *)
(* record as it is.                                                         *)
C16_GetUpdateWithinTTL ==
    /\ [](lastCall.op = "getUpdate" =>
             /\ lastCall.result =
                   IF lastCall.seen # NoRecord /\ SeenAge < 5 * 60 * 1000
                   THEN lastCall.seen.data ELSE "undefined"
             /\ lastCall.result # "undefined" <=>
                   (lastCall.seen # NoRecord /\ SeenAge < 5 * 60 * 1000))
    /\ [][(lastCall'.op = "getUpdate" /\ lastCall' # lastCall) => updates' = updates]_vars

(* getUpdate returned undefined for a record exactly five minutes old that  *)
(* is still stored.                                                         *)
C16_Witness ==
    /\ lastCall.op = "getUpdate"
    /\ lastCall.seen # NoRecord
    /\ SeenAge = 5 * 60 * 1000
    /\ lastCall.result = "undefined"
    /\ Has(updates, lastCall.id)
    /\ updates[lastCall.id].data = "{post}"

C19_OverwriteReplaces ==
    /\ lastCall.op = "addUpdate" =>
          /\ lastCall.invoked = <<>>
          /\ Has(updates, lastCall.id)
          /\ updates[lastCall.id] = [id |-> lastCall.id, data |-> lastCall.data,
                                     rollback |-> lastCall.rollback, timestamp |-> DateNow]
    /\ (lastCall.op = "rollbackUpdate" /\ lastCall.invoked # <<>>) =>
          /\ lastCall.latest # NoRecord
          /\ lastCall.invoked = <<lastCall.latest.rollback>>

(* The record of an id registered with r1 was overwritten later with r2,    *)
(* and rollbackUpdate invoked r2 alone.                                     *)
C19_Witness ==
    /\ lastCall.op = "rollbackUpdate"
    /\ lastCall.latest # NoRecord
    /\ lastCall.latest.replaced = "r1"
    /\ lastCall.latest.timestamp > 0
    /\ lastCall.invoked = <<"r2">>


----------------------------------------------------------------------------
(* Properties of QueryBuilder, checked under SpecBuilder *)

ChainMethods == {"select", "where", "orderBy", "limit", "offset", "include", "search"}

(* A chain method has been called and the builder is not as it was. *)
ChainStep ==
    /\ lastChain'.op \in ChainMethods
    /\ <<query, lastChain>>' # <<query, lastChain>>

(* The parameter each method but where sets *)
OwnKey(op) ==
    CASE op = "select" -> "select"
      [] op = "orderBy" -> "sort"
      [] op = "limit" -> "_limit"
      [] op = "offset" -> "_start"
      [] op = "include" -> "_embed"
      [] op = "search" -> "q"
      [] OTHER -> "none"

(* The parameters the call writes, with the values it writes *)
WrittenBy(call) ==
    CASE call.op = "select" -> [k \in {"select"} |-> "id,title"]
      [] call.op = "where" -> call.args.conditions
      [] call.op = "orderBy" ->
            [k \in {"sort"} |-> IF call.args.direction = "desc"
                                THEN "-" \o call.args.field ELSE call.args.field]
      [] call.op = "limit" -> [k \in {"_limit"} |-> call.args.count]
      [] call.op = "offset" -> [k \in {"_start"} |-> call.args.count]
      [] call.op = "include" -> [k \in {"_embed"} |-> "author"]
      [] call.op = "search" -> [k \in {"q"} |-> call.args.q]

(* Parameter k holds a value that select, orderBy, limit, offset, include   *)
(* or search has set, not a where.                                          *)
SetByItsMethod(k) ==
    /\ k \in {"select", "sort", "_limit", "_start", "_embed", "q"}
    /\ \A c \in Conditions : k \in DOMAIN c => c[k] # query[k]

Preserved(k) == k \in DOMAIN query' /\ query'[k] = query[k]

(* C20 as stated: a chain method overwrites only its own key: a where adds  *)
(* the keys of its conditions, a second orderBy leaves the one sort         *)
(* parameter of its own field, and every parameter set by another method    *)
(* is left unchanged.                                                       *)
C20_Original ==
    [][ChainStep =>
         /\ lastChain'.op = "where" =>
               \A k \in DOMAIN lastChain'.args.conditions : k \in DOMAIN query'
         /\ lastChain'.op = "orderBy" => query'["sort"] = WrittenBy(lastChain')["sort"]
         /\ \A k \in DOMAIN query :
               IF lastChain'.op = "where"
               THEN (SetByItsMethod(k) \/ k \notin DOMAIN lastChain'.args.conditions)
                       => Preserved(k)
               ELSE k # OwnKey(lastChain'.op) => Preserved(k)]_vars

(* C20 amended: a chain method merges the parameters it writes into the     *)
(* accumulated ones: the keys it writes hold the values of this call, all   *)
(* other parameters are kept unchanged, none is added or dropped.  select,  *)
(* orderBy, limit, offset, include and search write their one key; where    *)
(* writes every key of its conditions, also a key another method has set.   *)
C20_ChainMerges ==
    [][ChainStep =>
         /\ DOMAIN query' = (DOMAIN query) \cup (DOMAIN WrittenBy(lastChain'))
         /\ \A k \in DOMAIN WrittenBy(lastChain') : query'[k] = WrittenBy(lastChain')[k]
         /\ \A k \in (DOMAIN query) \ (DOMAIN WrittenBy(lastChain')) : query'[k] = query[k]
         /\ lastChain'.op # "where" => DOMAIN WrittenBy(lastChain') = {OwnKey(lastChain'.op)}]_vars

(* orderBy('y', 'desc') has replaced the sort parameter of an earlier       *)
(* orderBy('x'): the params hold the keys of two where calls, the single    *)
(* sort parameter '-y', and the _limit and _start set before.               *)
C20_Witness ==
    /\ lastChain.op = "orderBy"
    /\ lastChain.args = [field |-> "y", direction |-> "desc"]
    /\ lastChain.overwritten = [k \in {"sort"} |-> "x"]
    /\ query = [k \in {"status", "category", "sort", "_limit", "_start"} |->
                   CASE k = "status" -> "published"
                     [] k = "category" -> "news"
                     [] k = "sort" -> "-y"
                     [] k = "_limit" -> "10"
                     [] k = "_start" -> "0"]

(* C21: build(endpoint) leaves the builder as it is and returns the         *)
(* descriptor { url: baseUrl + endpoint, method: 'GET', params } of the      *)
(* accumulated params, so that a second build of the same endpoint made      *)
(* right after returns an equal descriptor; a step that drops a parameter    *)
(* is a reset(), which drops them all, and a build made while nothing is     *)
(* accumulated returns a descriptor without params.                          *)
C21_BuildKeepsBuilder ==
    [][ /\ lastChain'.op = "build" =>
            /\ query' = query
            /\ lastChain'.result.url = baseUrl \o lastChain'.args.endpoint
            /\ lastChain'.result.method = "GET"
            /\ IF query = EmptyMap
               THEN DOMAIN lastChain'.result = {"url", "method"}
               ELSE /\ DOMAIN lastChain'.result = {"url", "method", "params"}
                    /\ lastChain'.result.params = query
            /\ (lastChain.op = "build" /\ lastChain.args = lastChain'.args)
                  => lastChain'.result = lastChain.result
        /\ (\E k \in DOMAIN query : k \notin DOMAIN query')
              => lastChain'.op = "reset" /\ query' = EmptyMap ]_vars

(* build('/posts') has been called twice in a row on a builder that holds    *)
(* a select and a sort parameter, and returned them.                         *)
C21_Witness ==
    /\ lastChain.op = "build"
    /\ lastChain.builds = 2
    /\ lastChain.args.endpoint = "/posts"
    /\ DOMAIN query = {"select", "sort"}
    /\ lastChain.result = [url |-> "/api/posts", method |-> "GET", params |-> query]

----------------------------------------------------------------------------
(* Cache and pending map of RequestDeduplicator, checked under Spec *)

(* C25: a deduplicate(k, op, false) call is never answered from the cache:  *)
(* finding no pending entry for k it invokes op, also when a fresh cache     *)
(* entry for k exists; finding a pending entry it invokes nothing and holds  *)
(* the promise of that entry; and when the operation it started resolves,   *)
(* the result is written to the cache with the time of the resolution.      *)
C25_UseCacheFalse ==
    /\ [](\A c \in CallSet :
            ~c.useCache =>
                /\ c.src # "cache"
                /\ ~c.pendingSeen => (c.src = "started" /\ c.invoked = 1)
                /\ c.pendingSeen => (c.src = "pending" /\ c.invoked = 0))
    /\ [][\A i \in DOMAIN calls :
            ( /\ ~calls[i].useCache
              /\ calls[i].src = "started"
              /\ ops[calls[i].promise].status = "inflight"
              /\ ops'[calls[i].promise].status = "resolved" )
            => /\ Has(cache', calls[i].key)
               /\ cache'[calls[i].key] =
                    [data |-> ops'[calls[i].promise].value, timestamp |-> DateNow]]_vars

(* A call with useCache = false that found a fresh cache entry and no       *)
(* pending entry has invoked its operation, which has just resolved and     *)
(* replaced the entry in the cache.                                         *)
C25_Witness ==
    \E i \in DOMAIN returned :
        /\ ~returned[i].useCache
        /\ SawFresh(returned[i])
        /\ ~returned[i].pendingSeen
        /\ returned[i].src = "started"
        /\ returned[i].invoked = 1
        /\ returned[i].outcome.kind = "fulfilled"
        /\ cache[returned[i].key].data = returned[i].outcome.val
        /\ cache[returned[i].key].data # returned[i].cachedData

(* The operation whose result a call answered from the cache received *)
AnsweredWith(c, o) ==
    /\ c.src = "cache"
    /\ ops[o].key = c.key
    /\ ops[o].status = "resolved"
    /\ ops[o].value = c.outcome.val

ClearCacheStep ==
    \/ cache # EmptyMap /\ cache' = EmptyMap
    \/ \E o \in DOMAIN ops : o \in DOMAIN ops' /\ ops'[o].atClearCache # ops[o].atClearCache

(* C26: after clearCache(), no deduplicate call is answered from the cache  *)
(* with the result of an operation started before that clearCache() call,  *)
(* and clearCache() leaves the pending map unchanged.                       *)
C26_ClearCacheInvalidates ==
    /\ [](\A i \in DOMAIN returned, o \in DOMAIN ops :
            AnsweredWith(returned[i], o) => ops[o].atClearCache = "none")
    /\ [][ClearCacheStep => pendingRequests' = pendingRequests]_vars

----------------------------------------------------------------------------
(* The eviction pass of OptimisticUpdates, checked under SpecUpdates *)

AddUpdateStep == lastCall'.op = "addUpdate" /\ <<lastCall, updates>>' # <<lastCall, updates>>

(* C28: the eviction pass run by addUpdate removes exactly the records      *)
(* whose age is at least five minutes and keeps the others as they are, so  *)
(* that right after any addUpdate call every stored record is live (the one *)
(* just added included); no rollback callback is invoked.                   *)
C28_EvictionPass ==
    [][AddUpdateStep =>
         /\ \A id \in (DOMAIN updates) \ {lastCall'.id} :
               IF DateNow - updates[id].timestamp >= 5 * 60 * 1000
               THEN id \notin DOMAIN updates'
               ELSE id \in DOMAIN updates' /\ updates'[id] = updates[id]
         /\ DOMAIN updates' \subseteq (DOMAIN updates) \cup {lastCall'.id}
         /\ lastCall'.id \in DOMAIN updates'
         /\ \A id \in DOMAIN updates' : DateNow - updates'[id].timestamp < 5 * 60 * 1000
         /\ lastCall'.invoked = <<>>]_vars

(* addUpdate('u2') was the first call made when the record of u1 had become *)
(* exactly five minutes old: the record of u1, never removed or rolled      *)
(* back, is gone, and no rollback was invoked.                              *)
C28_Witness ==
    /\ lastCall.op = "addUpdate"
    /\ lastCall.id = "u2"
    /\ lastCall.prev[1] = "none"
    /\ lastCall.invoked = <<>>
    /\ Has(registered, "u1")
    /\ DateNow - registered["u1"].timestamp = 5 * 60 * 1000
    /\ ~Has(updates, "u1")
    /\ Has(updates, "u2")

----------------------------------------------------------------------------
(* Operations resolving after clearPending(), checked under Spec *)

(* Operation o resolves in this step. *)
Resolves(o) == ops[o].status = "inflight" /\ ops'[o].status = "resolved"

(* C29: an operation that resolves removes only its own pending entry: if   *)
(* the pending entry of its key belongs to a newer operation, started after *)
(* clearPending(), that entry is still there after the older one resolved.  *)
C29_RemovesOwnPendingEntry ==
    [][\A o \in DOMAIN ops :
          ( /\ Resolves(o)
            /\ Has(pendingRequests, ops[o].key)
            /\ pendingRequests[ops[o].key].promise # o )
          => /\ Has(pendingRequests', ops[o].key)
             /\ pendingRequests'[ops[o].key] = pendingRequests[ops[o].key]]_vars

(* The operations of key k that have resolved *)
ResolvedFor(k) == {o \in DOMAIN ops : ops[o].dedup /\ ops[o].key = k /\ ops[o].status = "resolved"}

Latest(S) == CHOOSE o \in S : \A x \in S : x <= o

(* C30: the cache entry of a key holds the result of the most recently      *)
(* started operation of that key among those that have resolved, and an     *)
(* older operation that resolves does not overwrite the cached result of a  *)
(* newer one.                                                               *)
C30_CacheHoldsNewest ==
    /\ [](\A k \in DOMAIN cache :
            ResolvedFor(k) # {} => cache[k].data = ops[Latest(ResolvedFor(k))].value)
    /\ [][\A o \in DOMAIN ops :
            ( /\ Resolves(o)
              /\ Has(cache, ops[o].key)
              /\ \E n \in ResolvedFor(ops[o].key) : n > o /\ cache[ops[o].key].data = ops[n].value )
            => cache'[ops[o].key] = cache[ops[o].key]]_vars

----------------------------------------------------------------------------
(* Interceptor paths of lucentQuery, checked under SpecFail *)

(* The network call the call awaited has failed: fetchFn rejected, the      *)
(* status was refused by validateStatus, or the body could not be parsed.   *)
RequestFailed(q) ==
    /\ queries[q].promise # NoPromise
    /\ ops[queries[q].promise].status = "rejected"

(* C24: response interceptors run only on the success path and error        *)
(* interceptors only on the failure path: a call that has resolved has       *)
(* invoked no error interceptor, a call whose network request, status        *)
(* validation or body parsing failed has invoked no response interceptor,    *)
(* every response interceptor invoked was handed a result the call had       *)
(* received, and every error interceptor was invoked in the catch block.     *)
C24_InterceptorPaths ==
    \A q \in DOMAIN queries :
        /\ queries[q].pc = "resolved" => queries[q].ranError = <<>>
        /\ RequestFailed(q) => queries[q].ranResponse = <<>>
        /\ queries[q].ranResponse # <<>> =>
              \/ queries[q].promise = NoPromise
              \/ ops[queries[q].promise].status = "resolved"
        /\ queries[q].ranError # <<>> => queries[q].pc \in {"error", "rejected"}

(* In a pipeline with a response and an error interceptor, one call has     *)
(* resolved through the response interceptor alone, and another, whose body *)
(* could not be parsed, was rejected through the error interceptor alone.   *)
C24_Witness ==
    /\ config.responseInterceptors = <<"stamp">>
    /\ config.errorInterceptors = <<"e1">>
    /\ \E a, b \in DOMAIN queries :
          /\ queries[a].pc = "resolved"
          /\ queries[a].ranResponse = <<"stamp">> /\ queries[a].ranError = <<>>
          /\ queries[b].pc = "rejected" /\ RequestFailed(b)
          /\ ops[queries[b].promise].parsed
          /\ queries[b].ranResponse = <<>> /\ queries[b].ranError = <<"e1">>

----------------------------------------------------------------------------
(* lucentQuery and the registry, checked under SpecRegistry *)

(* A step of a lucentQuery call or of its network request *)
PipelineStep ==
    \/ queries' # queries
    \/ ops' # ops
    \/ pendingRequests' # pendingRequests
    \/ cache' # cache

(* C27: no step of a lucentQuery call adds, removes or rolls back an        *)
(* optimistic-update record: whether the call short-circuits, succeeds over *)
(* the network, times out or fails, every step of it leaves the registry    *)
(* as it is.                                                                *)
C27_RegistryUntouched ==
    [][PipelineStep => updates' = updates]_vars

(* With a record registered, one call was answered by the short-circuit and *)
(* another, sent over the network, timed out and was rejected; the record   *)
(* is still in the registry.                                                *)
C27_Witness ==
    /\ Has(updates, "u1")
    /\ \E a, b \in DOMAIN queries :
          /\ queries[a].short /\ queries[a].pc = "resolved"
          /\ queries[b].pc = "rejected"
          /\ queries[b].promise # NoPromise
          /\ ops[queries[b].promise].aborted

----------------------------------------------------------------------------
(* Properties of TestHelper, checked under SpecHelper *)

(* C22: once recordStateChanges() has been called, every store.setState     *)
(* call appends exactly one entry to the recorded state changes, holding    *)
(* the next state of that call, and applies the update to the store, also   *)
(* when recordStateChanges() and clearStateChanges() are called again on    *)
(* the same helper.                                                         *)
C22_OneEntryPerSetState ==
    [][(recorders >= 1 /\ lastStore'.op = "setState" /\ storeVars' # storeVars)
         => /\ Len(stateChanges') = Len(stateChanges) + 1
            /\ SubSeq(stateChanges', 1, Len(stateChanges)) = stateChanges
            /\ stateChanges'[Len(stateChanges')].state = lastStore'.nextState
            /\ store' = merge(store, lastStore'.nextState)]_vars

----------------------------------------------------------------------------
(* Properties of the timeTravel middleware, checked under SpecTravel *)

(* The recorded states, oldest first: the first is the state the store was  *)
(* created with, the one after it the state produced by the first update.   *)
Timeline == timeTravelState.past \o <<timeTravelState.present>> \o timeTravelState.future

(* C23: back() sets the store to the recorded state before the present one, *)
(* forward() to the one after it, and jumpTo(i) to the i-th recorded state,  *)
(* index 0 being the state produced by the first update (from {count: 0}     *)
(* and the updates 1, 2, 3: back() gives 2, forward() 3, jumpTo(0) gives 1). *)
C23_JumpToIndex ==
    [][ /\ (lastStore'.op = "back" /\ Len(timeTravelState.past) > 0)
            => store' = timeTravelState.past[Len(timeTravelState.past)]
        /\ (lastStore'.op = "forward" /\ Len(timeTravelState.future) > 0)
            => store' = timeTravelState.future[1]
        /\ (lastStore'.op = "jumpTo" /\ lastStore'.index \in 0 .. Len(Timeline) - 2)
            => store' = Timeline[lastStore'.index + 2] ]_vars

----------------------------------------------------------------------------
(* Sharing between lucentQuery calls, checked under SpecShared *)

(* Call b holds the promise of the network call that call a made, or was    *)
(* answered from the cache with its result.                                 *)
SharesWith(a, b) ==
    /\ a # b
    /\ queries[a].invoked = 1
    /\ \/ queries[b].promise = queries[a].promise
       \/ /\ queries[b].promise = NoPromise
          /\ queries[b].pc \in {"await", "resolved"}
          /\ queries[b].result = BodyOf(queries[a].promise)

(* C31: two lucentQuery calls share an in-flight network call or a cached   *)
(* result only if they would issue the same request: never when they were   *)
(* made through callables of different baseUrl, or with descriptors that    *)
(* differ in validateStatus.                                                *)
C31_SharedOnlySameRequest ==
    \A a, b \in DOMAIN queries :
        SharesWith(a, b) =>
            /\ queries[a].baseUrl = queries[b].baseUrl
            /\ queries[a].margs.validateStatus = queries[b].margs.validateStatus

----------------------------------------------------------------------------
(* Rollback callbacks that throw, checked under SpecRollback *)

(* C32: over any sequence of addUpdate, getUpdate, removeUpdate and         *)
(* rollbackUpdate calls, the rollback callback registered by one addUpdate  *)
(* is invoked at most once, also when the callback throws.                  *)
C32_RollbackAtMostOnce ==
    /\ \A id \in DOMAIN registered : registered[id].invocations <= 1
    /\ (lastCall.op = "rollbackUpdate" /\ lastCall.prev[1] = "rollbackUpdate"
          /\ lastCall.prev[2] = lastCall.id /\ lastCall.prev[3] # <<>>)
        => lastCall.invoked = <<>>

----------------------------------------------------------------------------
(* Descriptors built by QueryBuilder, checked under SpecDescriptor *)

(* C33: a descriptor returned by build is not changed by anything done to   *)
(* the builder afterwards: every chain call and reset() leaves the url,     *)
(* method and params of every descriptor built before as they are.          *)
C33_DescriptorsUnchanged ==
    [][\A i \in DOMAIN built :
          /\ i \in DOMAIN built'
          /\ built'[i].desc = built[i].desc]_vars

(* Two descriptors were built, the first holding the params object of the   *)
(* builder; the builder has since been given other parameters and then been *)
(* reset, and the descriptors differ.                                       *)
C33_Witness ==
    /\ Len(built) = 2
    /\ lastChain.op = "reset"
    /\ built[1].desc = [url |-> "/api/posts", method |-> "GET",
                        params |-> [k \in {"sort"} |-> "-x"]]
    /\ "params" \in DOMAIN built[2].desc
    /\ DOMAIN built[2].desc.params = {"sort", "status", "_limit"}

----------------------------------------------------------------------------
(* undoRedo, checked under SpecUndoRedo *)

UndoThenRedo == lastStore.op = "redo" /\ lastStore.after = "undo"

Restored == History = lastStore.before

(* C34: undo() immediately followed by redo() restores the store state and  *)
(* the past, present and future of the history to what they were before     *)
(* undo(), whenever undo() found a past state to go back to; the store      *)
(* state is the present of the history throughout.                          *)
C34_UndoRedoRoundTrip ==
    /\ store = timeTravelState.present
    /\ (UndoThenRedo /\ Len(lastStore.before.history.past) > 0) => Restored

(* redo() followed an undo() that went back from a present with both a past *)
(* and a future.                                                            *)
C34_Witness ==
    /\ UndoThenRedo
    /\ Len(lastStore.before.history.past) = 2
    /\ Len(lastStore.before.history.future) = 1
    /\ store = [count |-> 2]
    /\ Restored

(* C34 as stated: undo() followed by redo() restores the store and the      *)
(* history after any sequence of calls, an empty past included.             *)
C34_AnySequence == UndoThenRedo => Restored

----------------------------------------------------------------------------
(* timeTravel with undo and redo, checked under SpecTimeTravel *)

(* C35: after a state change from A to B, undo() sets the store to A and a  *)
(* following redo() sets it back to B: undo() that goes back, followed by   *)
(* redo(), restores the state the store had before undo().                  *)
C35_UndoThenRedoRestores ==
    (UndoThenRedo /\ lastStore.before.tt.currentIndex > 0)
        => store = lastStore.before.store

(* undo() reads past[currentIndex - 1], which is always there. *)
UndoReadsPast == timeTravelState.currentIndex <= Len(timeTravelState.past)

----------------------------------------------------------------------------
(* The offline middleware, checked under SpecOffline and SpecOfflineFair *)

(* C36: under any interleaving of queueAction, online and offline events    *)
(* and processQueue() calls, at most one processing loop is active and the  *)
(* queued actions are applied to the store in the order they were queued,   *)
(* each action that was applied with success exactly once.                  *)
C36_InOrderExactlyOnce ==
    /\ offlineState.run \in {"try", "catch"} => offlineState.isProcessing
    /\ \A i, j \in DOMAIN offlineState.applied :
          i < j => offlineState.applied[i] < offlineState.applied[j]

(* C37: every processQueue() run that starts eventually terminates with     *)
(* isProcessing reset to false, whatever the outcomes of applying the       *)
(* actions and of writing the queue to storage.                             *)
C37_ProcessingEnds == offlineState.isProcessing ~> ~offlineState.isProcessing

----------------------------------------------------------------------------
(* createFetchStore, checked under SpecFetch *)

SettledCall(c) == fetchStore.calls[c].pc \in {"resolved", "rejected"}

EndedWithSuccess(call) ==
    /\ call.pc = "resolved"
    /\ call.settled.status = "success"
    /\ call.settled.data = call.data
    /\ call.data \in FetchedData
    /\ call.attempts = call.retries + 1

EndedWithError(call) ==
    /\ call.pc = "rejected"
    /\ call.settled.status = "error"
    /\ call.attempts = fetchStore.mergedOptions.retry + 1

ReturnedEarly(call) ==
    /\ call.pc = "resolved"
    /\ call.ended = "early"
    /\ ~call.force
    /\ call.attempts = 0
    /\ call.settled.data # "null"

(* C38: a fetchData call that does not return at once on fresh data invokes *)
(* fetchFn at most retry + 1 times; it ends with status 'success' and the   *)
(* fetched data after the first attempt that succeeds, or with status       *)
(* 'error' and a rejection after retry + 1 failed attempts; once every call *)
(* has settled the status is not 'loading'.  A call that returns at once    *)
(* was not forced, invokes fetchFn not at all and leaves the state alone.   *)
C38_RetriesBounded ==
    /\ \A c \in DOMAIN fetchStore.calls :
          /\ fetchStore.calls[c].attempts <= fetchStore.mergedOptions.retry + 1
          /\ SettledCall(c) =>
                \/ EndedWithSuccess(fetchStore.calls[c])
                \/ EndedWithError(fetchStore.calls[c])
                \/ ReturnedEarly(fetchStore.calls[c])
    /\ (\A c \in DOMAIN fetchStore.calls : SettledCall(c)) => store.status # "loading"

(* With retry 1, a call succeeded at its second attempt and another was     *)
(* rejected after two failed attempts.                                      *)
C38_Witness ==
    /\ fetchStore.mergedOptions.retry = 1
    /\ \E c, d \in DOMAIN fetchStore.calls :
          /\ EndedWithSuccess(fetchStore.calls[c])
          /\ fetchStore.calls[c].attempts = 2
          /\ EndedWithError(fetchStore.calls[d])
          /\ fetchStore.calls[d].attempts = 2

(* C38 as stated: every fetchData call ends with status 'success' and the   *)
(* fetched data, or with status 'error' and a rejection after retry + 1     *)
(* failed attempts.                                                         *)
C38_EndsSuccessOrError ==
    \A c \in DOMAIN fetchStore.calls :
        /\ fetchStore.calls[c].attempts <= fetchStore.mergedOptions.retry + 1
        /\ SettledCall(c) =>
              \/ /\ fetchStore.calls[c].pc = "resolved"
                 /\ fetchStore.calls[c].settled.status = "success"
              \/ EndedWithError(fetchStore.calls[c])

====
